---- MODULE Spec2Model ----
(***************************************************************************)
(* Model of the nanoSmart collector (cron/smart_monitor.sh).               *)
(*                                                                         *)
(* Strings the script inspects character by character (device paths, glob  *)
(* patterns, file names) are sequences of one-character strings, so that   *)
(* basename, the =~ regular expressions, pathname expansion and the        *)
(* [[ == ]] pattern match are computed the way bash computes them.         *)
(***************************************************************************)
EXTENDS Naturals, Integers, Sequences, FiniteSets, TLC

(***************************************************************************)
(* Bounds of the model                                                     *)
(***************************************************************************)
\* number of collector runs sharing one output directory
MaxRuns == 2
\* number of devices that may disappear while the collector is running
MaxVanish == 1
\* longest processing list of the exit-status specification
MaxExitDevices == 257

\* loadAllData calls of one useSmartMonitor instance: the one made at
\* creation and the refreshAll calls
MaxLoads == 2

(***************************************************************************)
(* Characters and strings                                                  *)
(***************************************************************************)
Lower ==
  {"a","b","c","d","e","f","g","h","i","j","k","l","m",
   "n","o","p","q","r","s","t","u","v","w","x","y","z"}

Digit == {"0","1","2","3","4","5","6","7","8","9"}

\* collation order used when pathname expansion sorts its matches
Collation ==
  <<"*","/","0","1","2","3","4","5","6","7","8","9","?","_",
    "a","b","c","d","e","f","g","h","i","j","k","l","m",
    "n","o","p","q","r","s","t","u","v","w","x","y","z">>

Rank(c) == CHOOSE i \in DOMAIN Collation : Collation[i] = c

RECURSIVE StrLess(_, _)
StrLess(a, b) ==
  IF b = <<>> THEN FALSE
  ELSE IF a = <<>> THEN TRUE
  ELSE IF Head(a) = Head(b) THEN StrLess(Tail(a), Tail(b))
  ELSE Rank(Head(a)) < Rank(Head(b))

Range(s) == {s[i] : i \in DOMAIN s}

RECURSIVE SortedSeq(_)
SortedSeq(S) ==
  IF S = {} THEN <<>>
  ELSE LET m == CHOOSE x \in S : \A y \in S \ {x} : StrLess(x, y)
       IN <<m>> \o SortedSeq(S \ {m})

RECURSIVE Flatten(_)
Flatten(ss) == IF ss = <<>> THEN <<>> ELSE Head(ss) \o Flatten(Tail(ss))

DEV == <<"/","d","e","v","/">>
DevDir == <<"/","d","e","v">>
SDA == DEV \o <<"s","d","a">>
SDA1 == DEV \o <<"s","d","a","1">>
SDB == DEV \o <<"s","d","b">>
NVME0N1 == DEV \o <<"n","v","m","e","0","n","1">>
NVME0N1P1 == DEV \o <<"n","v","m","e","0","n","1","p","1">>

\* the device nodes of the modelled machine
Universe == {SDA, SDA1, SDB, NVME0N1, NVME0N1P1}

\* what each device node really is
ActualKind(d) == IF d \in {SDA1, NVME0N1P1} THEN "part" ELSE "disk"

PatSdStar == DEV \o <<"s","d","*">>
PatNvmeStar == DEV \o <<"n","v","m","e","*">>
PatHdStar == DEV \o <<"h","d","*">>
PatSdQ == DEV \o <<"s","d","?">>
PatDevStar == <<"/","d","e","v","*">>

\* DEVICE_PATTERN="/dev/sd* /dev/nvme* /dev/hd*" after word splitting
DefaultDevicePattern == <<PatSdStar, PatNvmeStar, PatHdStar>>

JsonSuffix == <<"_","s","m","a","r","t",".","j","s","o","n">>

\* basename(1): the part of the path after its last slash
RECURSIVE basename(_)
basename(path) ==
  IF \E i \in DOMAIN path : path[i] = "/"
  THEN basename(Tail(path))
  ELSE path

(***************************************************************************)
(* The two regular expressions of is_disk_device                           *)
(***************************************************************************)
AllIn(s, S) == \A i \in DOMAIN s : s[i] \in S

\* [[ name =~ ^[a-z]+[0-9]+$ ]]
MatchesLettersDigits(name) ==
  \E k \in 1..(Len(name) - 1) :
     /\ AllIn(SubSeq(name, 1, k), Lower)
     /\ AllIn(SubSeq(name, k + 1, Len(name)), Digit)

\* [[ name =~ ^nvme[0-9]+n[0-9]+$ ]]
MatchesNvmeNamespace(name) ==
  /\ Len(name) >= 7
  /\ SubSeq(name, 1, 4) = <<"n","v","m","e">>
  /\ \E k \in 6..(Len(name) - 1) :
        /\ name[k] = "n"
        /\ AllIn(SubSeq(name, 5, k - 1), Digit)
        /\ AllIn(SubSeq(name, k + 1, Len(name)), Digit)

(***************************************************************************)
(* Pattern matching.  In a pathname expansion a wildcard never matches a   *)
(* slash; in [[ string == pattern ]] it does.                              *)
(***************************************************************************)
RECURSIVE GlobMatch(_, _, _)
GlobMatch(pat, str, pathname) ==
  IF pat = <<>> THEN str = <<>>
  ELSE IF Head(pat) = "*"
    THEN \/ GlobMatch(Tail(pat), str, pathname)
         \/ /\ str # <<>>
            /\ (pathname => Head(str) # "/")
            /\ GlobMatch(pat, Tail(str), pathname)
  ELSE IF Head(pat) = "?"
    THEN /\ str # <<>>
         /\ (pathname => Head(str) # "/")
         /\ GlobMatch(Tail(pat), Tail(str), pathname)
  ELSE /\ str # <<>>
       /\ Head(pat) = Head(str)
       /\ GlobMatch(Tail(pat), Tail(str), pathname)

HasWildcard(word) == \E i \in DOMAIN word : word[i] \in {"*", "?"}

\* Unquoted expansion of one word against the files that exist: the sorted
\* matches, or the word itself when it has no wildcard or nothing matches.
ExpandWord(word, fs) ==
  LET matches == {f \in fs : GlobMatch(word, f, TRUE)}
  IN IF HasWildcard(word) /\ matches # {} THEN SortedSeq(matches) ELSE <<word>>

\* "for x in $VAR": every word of the list is expanded in turn
ExpandWords(words, fs) == Flatten([i \in DOMAIN words |-> ExpandWord(words[i], fs)])

(***************************************************************************)
(* State                                                                   *)
(***************************************************************************)
VARIABLES
  smartctl,            \* smartctl is installed
  jq,                  \* jq is installed
  lsblk,               \* lsblk is installed
  lsblkType,           \* what "lsblk -d -no TYPE <device>" prints, per device
  blk,                 \* the paths that are block devices right now
  vanished,            \* how many devices have disappeared so far
  DEVICE_PATTERN,      \* words of $DEVICE_PATTERN
  EXCLUDE_PATTERNS,    \* words of $EXCLUDE_PATTERNS
  JSON_FORMAT,         \* "pretty", "compact" or "basic"
  DRY_RUN,             \* -n was given
  pc,                  \* position of the script
  run,                 \* number of the current run, stands for date +%s
  devices,             \* scan_devices: the processing list
  excluded_devices,    \* scan_devices: disks dropped by an exclude pattern
  filtered_partitions, \* scan_devices: paths is_disk_device rejected
  idx,                 \* scan_devices: position of the processing loop
  success_count,       \* scan_devices: local success_count
  error_count,         \* scan_devices: local error_count
  device_rc,           \* status of each process_device call of this run
  probed,              \* devices get_device_info has queried in this run
  last_probe,          \* the sub-query results and warnings of the last probe
  files,               \* <name>_smart.json files of the output directory
  index,               \* index.json of the output directory
  exit_status,         \* exit status of the finished run
  CONFIG_FILE,         \* path of the configuration file
  OUTPUT_DIR,          \* $OUTPUT_DIR
  LOG_FILE,            \* $LOG_FILE ("" disables logging)
  conf_files,          \* the configuration files on disk, per path
  argv,                \* the command line of the run
  tmp_json,            \* /tmp/smart_device_info_$$.json, the document to move
  same_filesystem,     \* /tmp and $OUTPUT_DIR are on one filesystem
  document,            \* transformDeviceData: the raw document it is given
  result,              \* transformDeviceData: what the call gave
  allDevicesData,      \* useSmartMonitor: allDevicesData.value
  isAllDevicesLoading, \* useSmartMonitor: isAllDevicesLoading.value
  isAllDevicesError,   \* useSmartMonitor: isAllDevicesError.value
  allDevicesError,     \* useSmartMonitor: allDevicesError.value
  calls                \* useSmartMonitor: the loadAllData calls made so far

vars ==
  <<smartctl, jq, lsblk, lsblkType, blk, vanished, DEVICE_PATTERN,
    EXCLUDE_PATTERNS, JSON_FORMAT, DRY_RUN, pc, run, devices,
    excluded_devices, filtered_partitions, idx, success_count, error_count,
    device_rc, probed, last_probe, files, index, exit_status, CONFIG_FILE,
    OUTPUT_DIR, LOG_FILE, conf_files, argv, tmp_json, same_filesystem,
    document, result, allDevicesData, isAllDevicesLoading, isAllDevicesError, allDevicesError,
    calls>>

\* the variables of the collector script and those of the web UI
collectorVars ==
  <<smartctl, jq, lsblk, lsblkType, blk, vanished, DEVICE_PATTERN,
    EXCLUDE_PATTERNS, JSON_FORMAT, DRY_RUN, pc, run, devices,
    excluded_devices, filtered_partitions, idx, success_count, error_count,
    device_rc, probed, last_probe, files, index, exit_status, CONFIG_FILE,
    OUTPUT_DIR, LOG_FILE, conf_files, argv, tmp_json, same_filesystem>>

webVars ==
  <<document, result, allDevicesData, isAllDevicesLoading,
    isAllDevicesError, allDevicesError, calls>>

\* the TYPE column lsblk can print for a block device ("" when it prints nothing)
LsblkTypes == {"disk", "part", "", "rom"}

\* lsblk reporting what each device really is
TruthfulLsblk == [d \in Universe |-> ActualKind(d)]

\* lsblk failing for every device: "|| echo """ leaves the type empty
EmptyLsblk == [d \in Universe |-> ""]

\* the paths a pathname expansion can see
FileSystem(blkSet) == blkSet \cup {DevDir}

(***************************************************************************)
(* is_disk_device: 0 when the device is to be treated as a disk, 1 when not *)
(***************************************************************************)
\* a classifier that asks lsblk before applying the name check
is_disk_device_lsblk_first(device, blkSet, lsblkAvail, typeOf) ==
  IF device \notin blkSet THEN 1
  ELSE IF lsblkAvail /\ typeOf[device] = "disk" THEN 0
  ELSE IF lsblkAvail /\ typeOf[device] = "part" THEN 1
  ELSE IF /\ MatchesLettersDigits(basename(device))
          /\ ~MatchesNvmeNamespace(basename(device)) THEN 1
  ELSE 0

\* a classifier that includes every type lsblk reports except "part"
is_disk_device_other_included(device, blkSet, lsblkAvail, typeOf) ==
  IF device \notin blkSet THEN 1
  ELSE IF /\ MatchesLettersDigits(basename(device))
          /\ ~MatchesNvmeNamespace(basename(device)) THEN 1
  ELSE IF lsblkAvail /\ typeOf[device] = "part" THEN 1
  ELSE 0

\* a classifier that never consults lsblk
is_disk_device_no_lsblk(device, blkSet, lsblkAvail, typeOf) ==
  IF device \notin blkSet THEN 1
  ELSE IF /\ MatchesLettersDigits(basename(device))
          /\ ~MatchesNvmeNamespace(basename(device)) THEN 1
  ELSE 0

is_disk_device(device, blkSet, lsblkAvail, typeOf) ==
  IF device \notin blkSet THEN 1
  ELSE LET device_name == basename(device) IN
    IF /\ MatchesLettersDigits(device_name)
       /\ ~MatchesNvmeNamespace(device_name)
    THEN 1
    ELSE IF lsblkAvail
      THEN LET device_type == typeOf[device] IN
           IF device_type = "part" THEN 1
           ELSE IF device_type = "disk" \/ device_type = "" THEN 0
           ELSE 1
      ELSE 0

(***************************************************************************)
(* scan_devices, first half: building the processing list                  *)
(***************************************************************************)
\* an exclude loop that compares the device with the pattern text only
should_exclude_literal(device, excludes, fs) ==
  \E i \in DOMAIN excludes : device = excludes[i]

\* the loop over $EXCLUDE_PATTERNS: the words are expanded, then matched
should_exclude(device, excludes, fs) ==
  LET words == ExpandWords(excludes, fs)
  IN \E i \in DOMAIN words : GlobMatch(words[i], device, FALSE)

RECURSIVE ClassifyAll(_, _, _, _, _, _)
ClassifyAll(candidates, acc, blkSet, lsblkAvail, typeOf, excludes) ==
  IF candidates = <<>> THEN acc
  ELSE LET device == Head(candidates)
           rest == Tail(candidates)
       IN IF device \notin blkSet
          THEN ClassifyAll(rest, acc, blkSet, lsblkAvail, typeOf, excludes)
          ELSE IF is_disk_device(device, blkSet, lsblkAvail, typeOf) = 0
            THEN IF ~should_exclude(device, excludes, FileSystem(blkSet))
                 THEN ClassifyAll(rest,
                        [acc EXCEPT !.devices = Append(@, device)],
                        blkSet, lsblkAvail, typeOf, excludes)
                 ELSE ClassifyAll(rest,
                        [acc EXCEPT !.excluded_devices = Append(@, device)],
                        blkSet, lsblkAvail, typeOf, excludes)
            ELSE ClassifyAll(rest,
                   [acc EXCEPT !.filtered_partitions = Append(@, device)],
                   blkSet, lsblkAvail, typeOf, excludes)

\* "for pattern in $DEVICE_PATTERN; for device in $pattern": both loops expand
Candidates(patterns, fs) == ExpandWords(ExpandWords(patterns, fs), fs)

BuildDeviceList(patterns, excludes, blkSet, lsblkAvail, typeOf) ==
  ClassifyAll(Candidates(patterns, FileSystem(blkSet)),
              [devices |-> <<>>, excluded_devices |-> <<>>,
               filtered_partitions |-> <<>>],
              blkSet, lsblkAvail, typeOf, excludes)

(***************************************************************************)
(* get_device_info: the five smartctl sub-queries of one device            *)
(***************************************************************************)
SubQuerySeq ==
  <<"device_info", "smart_attributes", "smart_health", "smart_errors",
    "smart_selftest">>

SubQueries == Range(SubQuerySeq)

\* What smartctl does for one sub-query, which the script runs twice:
\*   "ok"      both runs exit 0 and print a JSON object
\*   "fail"    the first run exits non-zero
\*   "garbage" both runs exit 0 and print text that is not JSON
\*   "braced"  both runs exit 0 and print { ... } that is not JSON
\*   "flaky"   the first run exits 0, the second prints its JSON object and
\*             exits non-zero, so that "|| echo {}" appends a second object
Outcomes == {"ok", "fail", "garbage", "braced", "flaky"}

\* "jq empty" when jq is installed, validate_json_basic otherwise
validate_json(outcome, jqAvail) ==
  CASE outcome = "ok" -> TRUE
    [] outcome = "flaky" -> TRUE
    [] outcome = "braced" -> ~jqAvail
    [] outcome = "garbage" -> FALSE
    [] OTHER -> FALSE

\* the text a sub-query leaves in its variable
SubQueryValue(outcome, jqAvail) ==
  IF outcome = "fail" THEN "{}"
  ELSE IF ~validate_json(outcome, jqAvail) THEN "{}"
  ELSE CASE outcome = "ok" -> "tool"
         [] outcome = "flaky" -> "tool{}"
         [] OTHER -> "braced"

\* the sub-query logs its "Invalid JSON ..." warning
SubQueryWarns(outcome, jqAvail) ==
  outcome # "fail" /\ ~validate_json(outcome, jqAvail)

\* content: what is written to the temporary file; warned: the sub-queries
\* with a warning; stdout_lines: the lines get_device_info prints on stdout,
\* one per warning (log writes to stdout) and the file name last
get_device_info(outcome, jqAvail) ==
  LET warned == {q \in SubQueries : SubQueryWarns(outcome[q], jqAvail)}
  IN [content |-> [q \in SubQueries |-> SubQueryValue(outcome[q], jqAvail)],
      warned |-> warned,
      stdout_lines |-> Cardinality(warned) + 1]

(***************************************************************************)
(* Files of the output directory                                           *)
(***************************************************************************)
NoData == [q \in SubQueries |-> ""]

NoFile == [kind |-> "absent", device |-> <<>>, timestamp |-> 0, smart_data |-> NoData]

EmptyFile == [kind |-> "empty", device |-> <<>>, timestamp |-> 0, smart_data |-> NoData]

OutputName(device) == basename(device) \o JsonSuffix

FileNames == {OutputName(d) : d \in Universe}

\* the temporary file parses as JSON
ValidJson(content) == \A q \in SubQueries : content[q] \in {"tool", "{}"}

\* convert_to_json: the content of "$input_file.json", NoFile when the
\* redirection fails because $input_file does not name the temporary file
convert_to_json(info, device, format, jqAvail, now) ==
  IF info.stdout_lines # 1 THEN NoFile
  ELSE IF format = "basic" \/ ~jqAvail
    THEN [kind |-> "doc", device |-> device, timestamp |-> now,
          smart_data |-> info.content]
    ELSE IF ValidJson(info.content)
      THEN [kind |-> "doc", device |-> device, timestamp |-> now,
            smart_data |-> info.content]
      ELSE EmptyFile

\* a variant without the accessibility test at its top
process_device_unchecked(device, blkSet, outcome, jqAvail, format, now, dir) ==
  LET info == get_device_info(outcome, jqAvail)
      json == convert_to_json(info, device, format, jqAvail, now)
  IN [rc |-> 0,
      queried |-> TRUE,
      warned |-> info.warned,
      files |-> IF json.kind = "absent" THEN dir
                ELSE [dir EXCEPT ![OutputName(device)] = json]]

\* process_device: the status it returns, whether smartctl was run
\* (queried), the warnings logged and the output directory afterwards.
\* "mv" fails, and is ignored, when convert_to_json left nothing to move.
process_device(device, blkSet, outcome, jqAvail, format, now, dir) ==
  IF device \notin blkSet
  THEN [rc |-> 1, queried |-> FALSE, warned |-> {}, files |-> dir]
  ELSE LET info == get_device_info(outcome, jqAvail)
           json == convert_to_json(info, device, format, jqAvail, now)
       IN [rc |-> 0,
           queried |-> TRUE,
           warned |-> info.warned,
           files |-> IF json.kind = "absent" THEN dir
                     ELSE [dir EXCEPT ![OutputName(device)] = json]]

(***************************************************************************)
(* create_index                                                            *)
(***************************************************************************)
NoIndex == [kind |-> "absent", last_run |-> 0, total_devices |-> 0, json_files |-> <<>>]

\* printf '%s\n' "${json_files[@]}" | jq -R . | jq -s . : printf prints one
\* line per argument, and one empty line when there is no argument at all;
\* jq turns every line into one string of the array
PrintfLines(args) == IF args = <<>> THEN << <<>> >> ELSE args

create_index(devs, format, jqAvail, now) ==
  LET json_files == [i \in DOMAIN devs |-> OutputName(devs[i])]
  IN [kind |-> "index",
      last_run |-> now,
      total_devices |-> Len(devs),
      json_files |-> IF format = "basic" \/ ~jqAvail THEN json_files
                     ELSE PrintfLines(json_files)]

\* "return $error_count" and "exit $scan_exit_code" keep the low eight bits
ExitStatus(n) == n % 256

(***************************************************************************)
(* The web UI: JavaScript values                                           *)
(***************************************************************************)
Undefined == [t |-> "undefined"]

Null == [t |-> "null"]

Num(n) == [t |-> "number", v |-> n]

NaN == [t |-> "number", nan |-> TRUE]

Str(s) == [t |-> "string", v |-> s]

\* a string kept character by character
Chars(cs) == [t |-> "string", c |-> cs]

Bool(b) == [t |-> "boolean", v |-> b]

\* an object: its members in the order of the JSON text
Prop(k, v) == [k |-> k, v |-> v]

Obj(members) == [t |-> "object", v |-> members]

\* an array is an object whose keys are its indices
Arr(xs) == Obj([i \in DOMAIN xs |-> Prop(<<"0", "1", "2">>[i], xs[i])])

\* ToBoolean
Truthy(x) ==
  CASE x.t \in {"undefined", "null"} -> FALSE
    [] x.t = "boolean" -> x.v
    [] x.t = "number" -> IF "nan" \in DOMAIN x THEN FALSE ELSE x.v # 0
    [] x.t = "string" -> IF "c" \in DOMAIN x THEN x.c # <<>>
                         ELSE IF "v" \in DOMAIN x THEN x.v # "" ELSE TRUE
    [] OTHER -> TRUE

\* a || b
OrElse(a, b) == IF Truthy(a) THEN a ELSE b

\* x.k and x?.k for x that is not null or undefined, undefined for x?.k
\* otherwise; the last member of that name counts, as in JSON.parse
Get(x, k) ==
  IF x.t = "object" /\ \E i \in DOMAIN x.v : x.v[i].k = k
  THEN x.v[CHOOSE i \in DOMAIN x.v :
             /\ x.v[i].k = k
             /\ \A j \in DOMAIN x.v : x.v[j].k = k => j <= i].v
  ELSE Undefined

\* the integer an integer-like key stands for, -1 for every other key
IntegerKey(k) ==
  CASE k = "0" -> 0
    [] k = "1" -> 1
    [] k = "2" -> 2
    [] k = "5" -> 5
    [] k = "9" -> 9
    [] k = "194" -> 194
    [] OTHER -> -1

RECURSIVE AscendingKeys(_, _)
AscendingKeys(members, S) ==
  IF S = {}
  THEN <<>>
  ELSE LET i == CHOOSE i \in S :
                  \A j \in S : IntegerKey(members[i].k) <= IntegerKey(members[j].k)
       IN <<members[i]>> \o AscendingKeys(members, S \ {i})

\* Object.entries: integer-like keys in ascending order, then the other keys
\* in insertion order; a primitive has no entry that is an object
ObjectEntries(x) ==
  IF x.t = "object"
  THEN AscendingKeys(x.v, {i \in DOMAIN x.v : IntegerKey(x.v[i].k) >= 0})
         \o SelectSeq(x.v, LAMBDA e : IntegerKey(e.k) < 0)
  ELSE <<>>

toString(x) ==
  CASE x.t = "number" -> IF "nan" \in DOMAIN x THEN Str("NaN") ELSE Str(ToString(x.v))
    [] x.t = "boolean" -> Str(IF x.v THEN "true" ELSE "false")
    [] x.t = "object" -> Str("[object Object]")
    [] OTHER -> x

\* ToNumber of the operands the relational and arithmetic operators get
ToNumber(x) ==
  CASE x.t = "number" -> x
    [] x.t = "null" -> Num(0)
    [] x.t = "boolean" -> Num(IF x.v THEN 1 ELSE 0)
    [] OTHER -> NaN

\* a comparison that also takes the bound itself
LessThan_or_equal(a, b) ==
  LET x == ToNumber(a)
      y == ToNumber(b)
  IN "nan" \notin DOMAIN x /\ "nan" \notin DOMAIN y /\ x.v <= y.v

\* a < b and a > b on numbers: false as soon as one side is NaN
LessThan(a, b) ==
  LET x == ToNumber(a)
      y == ToNumber(b)
  IN "nan" \notin DOMAIN x /\ "nan" \notin DOMAIN y /\ x.v < y.v

\* a === n for a number n
StrictEquals(a, n) == a.t = "number" /\ "nan" \notin DOMAIN a /\ a.v = n

\* a - b
Minus(a, b) ==
  LET x == ToNumber(a)
      y == ToNumber(b)
  IN IF "nan" \in DOMAIN x \/ "nan" \in DOMAIN y THEN NaN ELSE Num(x.v - y.v)

\* parseInt: a number stays what it is, a decimal string gives its number
\* (the decimal strings of the documents below), everything else (an
\* object, a boolean, null, undefined) gives NaN
parseInt(x) ==
  LET ParsedNumbers == {0, 3, 100, 8760}
  IN CASE x.t = "number" -> x
       [] x.t = "string" /\ "v" \in DOMAIN x
            /\ (\E n \in ParsedNumbers : ToString(n) = x.v) ->
            Num(CHOOSE n \in ParsedNumbers : ToString(n) = x.v)
       [] OTHER -> NaN

\* new Date(timestamp * 1000).toLocaleString(): the local form of that instant
toLocaleString(timestamp) ==
  LET x == ToNumber(timestamp)
  IN IF "nan" \in DOMAIN x
     THEN [t |-> "string", ms |-> NaN]
     ELSE [t |-> "string", ms |-> Num(x.v * 1000)]

\* s.replace(pattern, ''): the first occurrence of pattern is cut out
replace(s, pattern) ==
  LET n == Len(pattern)
      hits == {i \in 1..(Len(s) - n + 1) : SubSeq(s, i, i + n - 1) = pattern}
  IN IF hits = {}
     THEN s
     ELSE LET i == CHOOSE i \in hits : \A j \in hits : i <= j
          IN SubSeq(s, 1, i - 1) \o SubSeq(s, i + n, Len(s))

\* transformDeviceData has not been called yet
Pending == [t |-> "pending"]

\* no page of the web UI is open
NoWebUI ==
  /\ document = Undefined
  /\ result = Pending
  /\ allDevicesData = <<>>
  /\ isAllDevicesLoading = FALSE
  /\ isAllDevicesError = FALSE
  /\ allDevicesError = Null
  /\ calls = <<>>

(***************************************************************************)
(* Configuration file and command line                                     *)
(***************************************************************************)
\* the settings a configuration file and a flag can both give
Settings == {"OUTPUT_DIR", "LOG_FILE", "DEVICE_PATTERN", "EXCLUDE_PATTERNS", "JSON_FORMAT"}

\* ${SCRIPT_DIR}/smart_monitor.conf and the file a -c flag names
DefaultConfigFile == "SCRIPT_DIR/smart_monitor.conf"

OtherConfigFile == "/etc/smart_monitor.conf"

ConfigPaths == {DefaultConfigFile, OtherConfigFile}

\* the values the script assigns before it reads anything
Defaults ==
  [OUTPUT_DIR |-> "SCRIPT_DIR/output",
   LOG_FILE |-> "SCRIPT_DIR/smart_monitor.log",
   DEVICE_PATTERN |-> DefaultDevicePattern,
   EXCLUDE_PATTERNS |-> <<>>,
   JSON_FORMAT |-> "pretty"]

\* a path where there is no file
NoConfigFile == [exists |-> FALSE, assigns |-> {}, values |-> Defaults]

\* the values of the shell variables right now
CurrentSettings ==
  [OUTPUT_DIR |-> OUTPUT_DIR,
   LOG_FILE |-> LOG_FILE,
   DEVICE_PATTERN |-> DEVICE_PATTERN,
   EXCLUDE_PATTERNS |-> EXCLUDE_PATTERNS,
   JSON_FORMAT |-> JSON_FORMAT]

\* if [[ -f "$CONFIG_FILE" ]]; then source "$CONFIG_FILE"; fi : every
\* variable the file assigns takes the file's value
source_config(file, cur) ==
  IF file.exists
  THEN [s \in Settings |-> IF s \in file.assigns THEN file.values[s] ELSE cur[s]]
  ELSE cur

\* create_config: written only where no file exists, with all five settings
create_config(confs, path, cur) ==
  IF confs[path].exists
  THEN confs
  ELSE [confs EXCEPT ![path] = [exists |-> TRUE, assigns |-> Settings, values |-> cur]]

\* the values the flags -o -l -d -e -f carry when they are given
FlagValues ==
  [OUTPUT_DIR |-> "/srv/smart",
   LOG_FILE |-> "",
   DEVICE_PATTERN |-> <<PatNvmeStar>>,
   EXCLUDE_PATTERNS |-> <<PatSdQ>>,
   JSON_FORMAT |-> "compact"]

\* the case statement of main: one assignment per flag that is given
parse_arguments(args, cur) ==
  [s \in Settings |-> IF s \in args.flags THEN FlagValues[s] ELSE cur[s]]

\* a first run: defaults, no configuration file, no flags
DefaultConfiguration ==
  /\ CONFIG_FILE = DefaultConfigFile
  /\ OUTPUT_DIR = Defaults.OUTPUT_DIR
  /\ LOG_FILE = Defaults.LOG_FILE
  /\ conf_files = [p \in ConfigPaths |-> NoConfigFile]
  /\ argv = [c |-> FALSE, flags |-> {}]

(***************************************************************************)
(* Initial states                                                          *)
(***************************************************************************)
Formats == {"pretty", "compact", "basic"}

AllOk == [q \in SubQueries |-> "ok"]

AllFail == [q \in SubQueries |-> "fail"]

InfoGarbage == [AllOk EXCEPT !["device_info"] = "garbage"]

\* the sub-query results drawn while a whole run is modelled
RunOutcomes == {AllOk, AllFail, InfoGarbage}

NoProbe == [device |-> <<>>, outcome |-> AllOk, warned |-> {}, rc |-> 0]

\* the state of a process that has just been started
Fresh ==
  /\ pc = "start"
  /\ devices = <<>>
  /\ excluded_devices = <<>>
  /\ filtered_partitions = <<>>
  /\ idx = 1
  /\ success_count = 0
  /\ error_count = 0
  /\ device_rc = <<>>
  /\ probed = <<>>
  /\ last_probe = NoProbe
  /\ exit_status = 0

EmptyOutputDir ==
  /\ files = [n \in FileNames |-> NoFile]
  /\ index = NoIndex

\* A machine whose lsblk, if installed, tells the truth or prints nothing
Init ==
  /\ smartctl \in BOOLEAN
  /\ jq \in BOOLEAN
  /\ lsblk \in BOOLEAN
  /\ lsblkType \in {TruthfulLsblk, EmptyLsblk}
  /\ blk \in {{SDA, SDA1, NVME0N1}, {SDA, SDB}, {NVME0N1, NVME0N1P1}}
  /\ vanished = 0
  /\ DEVICE_PATTERN = DefaultDevicePattern
  /\ EXCLUDE_PATTERNS \in {<<>>, <<SDA>>, <<PatSdStar>>, <<PatDevStar>>}
  /\ JSON_FORMAT \in Formats
  /\ DRY_RUN \in BOOLEAN
  /\ run = 1
  /\ Fresh
  /\ EmptyOutputDir
  /\ DefaultConfiguration
  /\ tmp_json = NoFile
  /\ same_filesystem = TRUE
  /\ NoWebUI

(***************************************************************************)
(* Actions                                                                 *)
(***************************************************************************)
\* a dependency check that only warns when smartctl is missing
check_dependencies_warn_only(smartctlAvail, jqAvail, format) ==
  [abort |-> FALSE, JSON_FORMAT |-> IF jqAvail THEN format ELSE "basic"]

\* check_dependencies: exit 1 without smartctl, basic format without jq
check_dependencies(smartctlAvail, jqAvail, format) ==
  IF ~smartctlAvail
  THEN [abort |-> TRUE, JSON_FORMAT |-> format]
  ELSE [abort |-> FALSE, JSON_FORMAT |-> IF jqAvail THEN format ELSE "basic"]

\* main up to the call of scan_devices
main ==
  /\ pc = "start"
  /\ LET dep == check_dependencies(smartctl, jq, JSON_FORMAT)
     IN IF dep.abort
        THEN /\ pc' = "done"
             /\ exit_status' = 1
             /\ UNCHANGED JSON_FORMAT
        ELSE /\ pc' = "scan"
             /\ JSON_FORMAT' = dep.JSON_FORMAT
             /\ UNCHANGED exit_status
  /\ UNCHANGED <<smartctl, jq, lsblk, lsblkType, blk, vanished, DEVICE_PATTERN,
                 EXCLUDE_PATTERNS, DRY_RUN, run, devices, excluded_devices,
                 filtered_partitions, idx, success_count, error_count,
                 device_rc, probed, last_probe, files, index>>
  /\ conf_files' = IF check_dependencies(smartctl, jq, JSON_FORMAT).abort
                   THEN conf_files
                   ELSE create_config(conf_files, CONFIG_FILE,
                                      [CurrentSettings EXCEPT !.JSON_FORMAT = JSON_FORMAT'])
  /\ UNCHANGED <<CONFIG_FILE, OUTPUT_DIR, LOG_FILE, argv>>
  /\ UNCHANGED <<tmp_json, same_filesystem>>
  /\ UNCHANGED webVars

\* scan_devices up to the dry-run test: the processing list is built
scan_devices_build ==
  /\ pc = "scan"
  /\ LET r == BuildDeviceList(DEVICE_PATTERN, EXCLUDE_PATTERNS, blk, lsblk, lsblkType)
     IN /\ devices' = r.devices
        /\ excluded_devices' = r.excluded_devices
        /\ filtered_partitions' = r.filtered_partitions
        /\ pc' = IF DRY_RUN \/ r.devices = <<>> THEN "index" ELSE "process"
  /\ idx' = 1
  /\ success_count' = 0
  /\ error_count' = 0
  /\ UNCHANGED <<smartctl, jq, lsblk, lsblkType, blk, vanished, DEVICE_PATTERN,
                 EXCLUDE_PATTERNS, JSON_FORMAT, DRY_RUN, run, device_rc,
                 probed, last_probe, files, index, exit_status>>
  /\ UNCHANGED <<CONFIG_FILE, OUTPUT_DIR, LOG_FILE, conf_files, argv>>
  /\ UNCHANGED <<tmp_json, same_filesystem>>
  /\ UNCHANGED webVars

\* one iteration of the processing loop: process_device in its subshell,
\* then the counters
process_step(outcomeSet) ==
  /\ pc = "process"
  /\ idx <= Len(devices)
  /\ \E outcome \in outcomeSet :
       LET device == devices[idx]
           r == process_device(device, blk, outcome, jq, JSON_FORMAT, run, files)
       IN /\ files' = r.files
          /\ device_rc' = Append(device_rc, r.rc)
          /\ IF r.queried
             THEN /\ probed' = Append(probed, device)
                  /\ last_probe' = [device |-> device, outcome |-> outcome,
                                    warned |-> r.warned, rc |-> r.rc]
             ELSE UNCHANGED <<probed, last_probe>>
          /\ IF r.rc = 0
             THEN success_count' = success_count + 1 /\ UNCHANGED error_count
             ELSE error_count' = error_count + 1 /\ UNCHANGED success_count
  /\ idx' = idx + 1
  /\ pc' = IF idx = Len(devices) THEN "index" ELSE "process"
  /\ UNCHANGED <<smartctl, jq, lsblk, lsblkType, blk, vanished, DEVICE_PATTERN,
                 EXCLUDE_PATTERNS, JSON_FORMAT, DRY_RUN, run, devices,
                 excluded_devices, filtered_partitions, index, exit_status>>
  /\ UNCHANGED <<CONFIG_FILE, OUTPUT_DIR, LOG_FILE, conf_files, argv>>
  /\ UNCHANGED <<tmp_json, same_filesystem>>
  /\ UNCHANGED webVars

\* the earlier revision's end of scan_devices: a dry run returns 0 after the
\* listing and writes no index
finish_without_dry_run_index ==
  /\ pc = "index"
  /\ index' = IF DRY_RUN THEN index ELSE create_index(devices, JSON_FORMAT, jq, run)
  /\ exit_status' = IF DRY_RUN THEN 0 ELSE ExitStatus(error_count)
  /\ pc' = "done"
  /\ UNCHANGED <<smartctl, jq, lsblk, lsblkType, blk, vanished, DEVICE_PATTERN,
                 EXCLUDE_PATTERNS, JSON_FORMAT, DRY_RUN, run, devices,
                 excluded_devices, filtered_partitions, idx, success_count,
                 error_count, device_rc, probed, last_probe, files>>
  /\ UNCHANGED <<CONFIG_FILE, OUTPUT_DIR, LOG_FILE, conf_files, argv>>
  /\ UNCHANGED <<tmp_json, same_filesystem>>
  /\ UNCHANGED webVars

\* the end of scan_devices and of main: create_index, then the exit status
finish ==
  /\ pc = "index"
  /\ index' = create_index(devices, JSON_FORMAT, jq, run)
  /\ exit_status' = IF DRY_RUN THEN 0 ELSE ExitStatus(error_count)
  /\ pc' = "done"
  /\ UNCHANGED <<smartctl, jq, lsblk, lsblkType, blk, vanished, DEVICE_PATTERN,
                 EXCLUDE_PATTERNS, JSON_FORMAT, DRY_RUN, run, devices,
                 excluded_devices, filtered_partitions, idx, success_count,
                 error_count, device_rc, probed, last_probe, files>>
  /\ UNCHANGED <<CONFIG_FILE, OUTPUT_DIR, LOG_FILE, conf_files, argv>>
  /\ UNCHANGED <<tmp_json, same_filesystem>>
  /\ UNCHANGED webVars

\* the environment: a device disappears while the loop is running
device_vanishes ==
  /\ pc = "process"
  /\ vanished < MaxVanish
  /\ \E d \in blk : blk' = blk \ {d}
  /\ vanished' = vanished + 1
  /\ UNCHANGED <<smartctl, jq, lsblk, lsblkType, DEVICE_PATTERN,
                 EXCLUDE_PATTERNS, JSON_FORMAT, DRY_RUN, pc, run, devices,
                 excluded_devices, filtered_partitions, idx, success_count,
                 error_count, device_rc, probed, last_probe, files, index,
                 exit_status>>
  /\ UNCHANGED <<CONFIG_FILE, OUTPUT_DIR, LOG_FILE, conf_files, argv>>
  /\ UNCHANGED <<tmp_json, same_filesystem>>
  /\ UNCHANGED webVars

\* cron starts the script again on the same output directory; the format of
\* the new run is the one its configuration file gives, which the
\* administrator may have edited, or the -f flag's when there is no file
next_run ==
  /\ pc = "done"
  /\ run < MaxRuns
  /\ run' = run + 1
  /\ smartctl' \in BOOLEAN
  /\ DRY_RUN' \in BOOLEAN
  /\ JSON_FORMAT' \in Formats
  /\ conf_files' = IF conf_files[CONFIG_FILE].exists
                   THEN [conf_files EXCEPT ![CONFIG_FILE].values.JSON_FORMAT = JSON_FORMAT']
                   ELSE conf_files
  /\ pc' = "start"
  /\ devices' = <<>>
  /\ excluded_devices' = <<>>
  /\ filtered_partitions' = <<>>
  /\ idx' = 1
  /\ success_count' = 0
  /\ error_count' = 0
  /\ device_rc' = <<>>
  /\ probed' = <<>>
  /\ last_probe' = NoProbe
  /\ exit_status' = 0
  /\ UNCHANGED <<jq, lsblk, lsblkType, blk, vanished, DEVICE_PATTERN,
                 EXCLUDE_PATTERNS, files, index>>
  /\ UNCHANGED <<CONFIG_FILE, OUTPUT_DIR, LOG_FILE, argv>>
  /\ UNCHANGED <<tmp_json, same_filesystem>>
  /\ UNCHANGED webVars

Next ==
  \/ main
  \/ scan_devices_build
  \/ process_step(RunOutcomes)
  \/ finish
  \/ device_vanishes
  \/ next_run

Spec == Init /\ [][Next]_vars

(***************************************************************************)
(* The list-building half of scan_devices on a machine whose lsblk may      *)
(* print any type for any device                                           *)
(***************************************************************************)
ScenarioDevicePattern == <<SDA, SDA1, NVME0N1>>

InitScan ==
  /\ smartctl = TRUE
  /\ jq = TRUE
  /\ lsblk \in BOOLEAN
  /\ lsblkType \in [Universe -> LsblkTypes]
  /\ blk \in {Universe, {SDA, SDA1, NVME0N1}}
  /\ vanished = 0
  /\ DEVICE_PATTERN \in {DefaultDevicePattern, ScenarioDevicePattern}
  /\ EXCLUDE_PATTERNS \in {<<>>, <<PatSdQ>>}
  /\ JSON_FORMAT = "pretty"
  /\ DRY_RUN = FALSE
  /\ run = 1
  /\ Fresh
  /\ EmptyOutputDir
  /\ DefaultConfiguration
  /\ tmp_json = NoFile
  /\ same_filesystem = TRUE
  /\ NoWebUI

NextScan == main \/ scan_devices_build

SpecScan == InitScan /\ [][NextScan]_vars

(***************************************************************************)
(* One process_device call under every combination of sub-query results    *)
(***************************************************************************)
AllOutcomes == [SubQueries -> Outcomes]

\* a document left by an earlier run
StaleDoc == [kind |-> "doc", device |-> SDA, timestamp |-> 0,
             smart_data |-> [q \in SubQueries |-> "tool"]]

InitProbe ==
  /\ smartctl = TRUE
  /\ jq \in BOOLEAN
  /\ lsblk = TRUE
  /\ lsblkType = TruthfulLsblk
  /\ blk \in {{SDA}, {}}
  /\ vanished = 0
  /\ DEVICE_PATTERN = DefaultDevicePattern
  /\ EXCLUDE_PATTERNS = <<>>
  /\ JSON_FORMAT \in (IF jq THEN Formats ELSE {"basic"})
  /\ DRY_RUN = FALSE
  /\ run = 1
  /\ pc = "process"
  /\ devices = <<SDA>>
  /\ excluded_devices = <<>>
  /\ filtered_partitions = <<>>
  /\ idx = 1
  /\ success_count = 0
  /\ error_count = 0
  /\ device_rc = <<>>
  /\ probed = <<>>
  /\ last_probe = NoProbe
  /\ exit_status = 0
  /\ files \in {[n \in FileNames |-> NoFile],
                [n \in FileNames |-> IF n = OutputName(SDA) THEN StaleDoc ELSE NoFile]}
  /\ index = NoIndex
  /\ DefaultConfiguration
  /\ tmp_json = NoFile
  /\ same_filesystem = TRUE
  /\ NoWebUI

NextProbe == process_step(AllOutcomes) \/ finish

SpecProbe == InitProbe /\ [][NextProbe]_vars

(***************************************************************************)
(* The processing loop and the exit status on long processing lists        *)
(***************************************************************************)
\* the processing list when $DEVICE_PATTERN names /dev/sda n times
LongList(n) == [i \in 1..n |-> SDA]

InitExit ==
  /\ smartctl = TRUE
  /\ jq = TRUE
  /\ lsblk = TRUE
  /\ lsblkType = TruthfulLsblk
  /\ blk = {SDA}
  /\ vanished = 0
  /\ DEVICE_PATTERN = DefaultDevicePattern
  /\ EXCLUDE_PATTERNS = <<>>
  /\ JSON_FORMAT = "pretty"
  /\ DRY_RUN = FALSE
  /\ run = 1
  /\ \E n \in {0, 1, 2} \cup ((MaxExitDevices - 2)..MaxExitDevices) :
        /\ devices = LongList(n)
        /\ pc = IF n = 0 THEN "index" ELSE "process"
  /\ excluded_devices = <<>>
  /\ filtered_partitions = <<>>
  /\ idx = 1
  /\ success_count = 0
  /\ error_count = 0
  /\ device_rc = <<>>
  /\ probed = <<>>
  /\ last_probe = NoProbe
  /\ exit_status = 0
  /\ EmptyOutputDir
  /\ DefaultConfiguration
  /\ tmp_json = NoFile
  /\ same_filesystem = TRUE
  /\ NoWebUI

NextExit == process_step({AllOk}) \/ finish \/ device_vanishes

SpecExit == InitExit /\ [][NextExit]_vars

(***************************************************************************)
(* A run from its first line: configuration file, flags, reload            *)
(***************************************************************************)
\* the values the configuration files on disk carry
FileValues ==
  [p \in ConfigPaths |->
     IF p = DefaultConfigFile
     THEN [OUTPUT_DIR |-> "/var/lib/smart",
           LOG_FILE |-> "/var/log/smart.log",
           DEVICE_PATTERN |-> <<PatSdStar>>,
           EXCLUDE_PATTERNS |-> <<SDA>>,
           JSON_FORMAT |-> "basic"]
     ELSE [OUTPUT_DIR |-> "/data/smart",
           LOG_FILE |-> "/data/smart.log",
           DEVICE_PATTERN |-> <<PatSdStar, PatNvmeStar>>,
           EXCLUDE_PATTERNS |-> <<SDB>>,
           JSON_FORMAT |-> "basic"]]

\* a configuration file that assigns the settings of A
ConfigFileAssigning(p, A) ==
  [exists |-> TRUE,
   assigns |-> A,
   values |-> [s \in Settings |-> IF s \in A THEN FileValues[p][s] ELSE Defaults[s]]]

\* the script has assigned its defaults and stands before the first load of
\* the configuration file
InitConfig ==
  /\ smartctl = TRUE
  /\ jq = TRUE
  /\ lsblk = TRUE
  /\ lsblkType = TruthfulLsblk
  /\ blk = {SDA, SDB, NVME0N1}
  /\ vanished = 0
  /\ DEVICE_PATTERN = Defaults.DEVICE_PATTERN
  /\ EXCLUDE_PATTERNS = Defaults.EXCLUDE_PATTERNS
  /\ JSON_FORMAT = Defaults.JSON_FORMAT
  /\ OUTPUT_DIR = Defaults.OUTPUT_DIR
  /\ LOG_FILE = Defaults.LOG_FILE
  /\ CONFIG_FILE = DefaultConfigFile
  /\ DRY_RUN = FALSE
  /\ run = 1
  /\ pc = "boot"
  /\ devices = <<>>
  /\ excluded_devices = <<>>
  /\ filtered_partitions = <<>>
  /\ idx = 1
  /\ success_count = 0
  /\ error_count = 0
  /\ device_rc = <<>>
  /\ probed = <<>>
  /\ last_probe = NoProbe
  /\ exit_status = 0
  /\ EmptyOutputDir
  /\ \E A \in SUBSET Settings, other \in BOOLEAN :
        conf_files \in
          {[p \in ConfigPaths |->
              IF p = DefaultConfigFile
              THEN d
              ELSE IF other THEN ConfigFileAssigning(p, Settings) ELSE NoConfigFile] :
           d \in {NoConfigFile, ConfigFileAssigning(DefaultConfigFile, A)}}
  /\ argv \in [c : BOOLEAN, flags : SUBSET Settings]
  /\ tmp_json = NoFile
  /\ same_filesystem = TRUE
  /\ NoWebUI

\* the top of the script: the default configuration file, if it exists, is
\* sourced over the defaults
load_config ==
  /\ pc = "boot"
  /\ LET cur == source_config(conf_files[CONFIG_FILE], CurrentSettings)
     IN /\ OUTPUT_DIR' = cur.OUTPUT_DIR
        /\ LOG_FILE' = cur.LOG_FILE
        /\ DEVICE_PATTERN' = cur.DEVICE_PATTERN
        /\ EXCLUDE_PATTERNS' = cur.EXCLUDE_PATTERNS
        /\ JSON_FORMAT' = cur.JSON_FORMAT
  /\ pc' = "args"
  /\ UNCHANGED <<smartctl, jq, lsblk, lsblkType, blk, vanished, DRY_RUN, run,
                 devices, excluded_devices, filtered_partitions, idx,
                 success_count, error_count, device_rc, probed, last_probe,
                 files, index, exit_status, CONFIG_FILE, conf_files, argv,
                 tmp_json, same_filesystem>>
  /\ UNCHANGED webVars

\* main from its first line to the log lines before check_dependencies: the
\* flags are assigned, then the configuration file is sourced once more
main_arguments ==
  /\ pc = "args"
  /\ LET config == IF argv.c THEN OtherConfigFile ELSE CONFIG_FILE
         parsed == parse_arguments(argv, CurrentSettings)
         cur == source_config(conf_files[config], parsed)
     IN /\ CONFIG_FILE' = config
        /\ OUTPUT_DIR' = cur.OUTPUT_DIR
        /\ LOG_FILE' = cur.LOG_FILE
        /\ DEVICE_PATTERN' = cur.DEVICE_PATTERN
        /\ EXCLUDE_PATTERNS' = cur.EXCLUDE_PATTERNS
        /\ JSON_FORMAT' = cur.JSON_FORMAT
  /\ pc' = "start"
  /\ UNCHANGED <<smartctl, jq, lsblk, lsblkType, blk, vanished, DRY_RUN, run,
                 devices, excluded_devices, filtered_partitions, idx,
                 success_count, error_count, device_rc, probed, last_probe,
                 files, index, exit_status, conf_files, argv, tmp_json,
                 same_filesystem>>
  /\ UNCHANGED webVars

NextConfig ==
  \/ load_config
  \/ main_arguments
  \/ main
  \/ scan_devices_build
  \/ process_step({AllOk})
  \/ finish

SpecConfig == InitConfig /\ [][NextConfig]_vars
(***************************************************************************)
(* The output directory as a reader finds it at every moment of a run      *)
(***************************************************************************)
\* the processing list is built; the output directory is empty or holds what
\* an earlier run left; /tmp is on the filesystem of $OUTPUT_DIR or not
InitWrite ==
  /\ smartctl = TRUE
  /\ jq \in BOOLEAN
  /\ lsblk = TRUE
  /\ lsblkType = TruthfulLsblk
  /\ blk \in {{SDA, NVME0N1}, {SDA}}
  /\ vanished = 0
  /\ DEVICE_PATTERN = DefaultDevicePattern
  /\ EXCLUDE_PATTERNS = <<>>
  /\ JSON_FORMAT \in (IF jq THEN Formats ELSE {"basic"})
  /\ DRY_RUN = FALSE
  /\ run = 1
  /\ pc = "process"
  /\ devices \in {<<SDA>>, <<SDA, NVME0N1>>}
  /\ excluded_devices = <<>>
  /\ filtered_partitions = <<>>
  /\ idx = 1
  /\ success_count = 0
  /\ error_count = 0
  /\ device_rc = <<>>
  /\ probed = <<>>
  /\ last_probe = NoProbe
  /\ exit_status = 0
  /\ \/ EmptyOutputDir
     \/ /\ files = [n \in FileNames |-> IF n = OutputName(SDA) THEN StaleDoc ELSE NoFile]
        /\ index = [kind |-> "index", last_run |-> 0, total_devices |-> 1,
                    json_files |-> <<OutputName(SDA)>>]
  /\ DefaultConfiguration
  /\ tmp_json = NoFile
  /\ same_filesystem \in BOOLEAN
  /\ NoWebUI

\* process_device up to its mv: the accessibility test, get_device_info and
\* convert_to_json, which leaves the document in /tmp; an inaccessible
\* device ends the iteration with status 1
process_device_convert ==
  /\ pc = "process"
  /\ idx <= Len(devices)
  /\ \E outcome \in RunOutcomes :
       LET device == devices[idx]
           info == get_device_info(outcome, jq)
       IN IF device \notin blk
          THEN /\ device_rc' = Append(device_rc, 1)
               /\ error_count' = error_count + 1
               /\ idx' = idx + 1
               /\ pc' = IF idx = Len(devices) THEN "index" ELSE "process"
               /\ UNCHANGED <<probed, last_probe, tmp_json>>
          ELSE /\ tmp_json' = convert_to_json(info, device, JSON_FORMAT, jq, run)
               /\ probed' = Append(probed, device)
               /\ last_probe' = [device |-> device, outcome |-> outcome,
                                 warned |-> info.warned, rc |-> 0]
               /\ pc' = "mv"
               /\ UNCHANGED <<device_rc, error_count, idx>>
  /\ UNCHANGED <<smartctl, jq, lsblk, lsblkType, blk, vanished, DEVICE_PATTERN,
                 EXCLUDE_PATTERNS, JSON_FORMAT, DRY_RUN, run, devices,
                 excluded_devices, filtered_partitions, success_count, files,
                 index, exit_status>>
  /\ UNCHANGED <<CONFIG_FILE, OUTPUT_DIR, LOG_FILE, conf_files, argv, same_filesystem>>
  /\ UNCHANGED webVars

\* mv "$info_file.json" "$output_file" as one rename(2), or failing because
\* there is nothing to move; then rm -f, return 0 and the counter
mv_rename ==
  /\ pc = "mv"
  /\ same_filesystem \/ tmp_json = NoFile
  /\ files' = IF tmp_json = NoFile
              THEN files
              ELSE [files EXCEPT ![OutputName(devices[idx])] = tmp_json]
  /\ tmp_json' = NoFile
  /\ device_rc' = Append(device_rc, 0)
  /\ success_count' = success_count + 1
  /\ idx' = idx + 1
  /\ pc' = IF idx = Len(devices) THEN "index" ELSE "process"
  /\ UNCHANGED <<smartctl, jq, lsblk, lsblkType, blk, vanished, DEVICE_PATTERN,
                 EXCLUDE_PATTERNS, JSON_FORMAT, DRY_RUN, run, devices,
                 excluded_devices, filtered_partitions, error_count, probed,
                 last_probe, index, exit_status>>
  /\ UNCHANGED <<CONFIG_FILE, OUTPUT_DIR, LOG_FILE, conf_files, argv, same_filesystem>>
  /\ UNCHANGED webVars

\* mv across filesystems: rename(2) fails with EXDEV and mv removes the
\* destination before it copies
mv_unlink ==
  /\ pc = "mv"
  /\ ~same_filesystem
  /\ tmp_json # NoFile
  /\ files' = [files EXCEPT ![OutputName(devices[idx])] = NoFile]
  /\ pc' = "mv_copy"
  /\ UNCHANGED <<smartctl, jq, lsblk, lsblkType, blk, vanished, DEVICE_PATTERN,
                 EXCLUDE_PATTERNS, JSON_FORMAT, DRY_RUN, run, devices,
                 excluded_devices, filtered_partitions, idx, success_count,
                 error_count, device_rc, probed, last_probe, index, exit_status>>
  /\ UNCHANGED <<CONFIG_FILE, OUTPUT_DIR, LOG_FILE, conf_files, argv, tmp_json,
                 same_filesystem>>
  /\ UNCHANGED webVars

\* mv across filesystems: the destination is created empty, then the
\* document is written into it and the source removed; then rm -f, return 0
\* and the counter
mv_copy ==
  /\ pc = "mv_copy"
  /\ IF files[OutputName(devices[idx])] = NoFile
     THEN /\ files' = [files EXCEPT ![OutputName(devices[idx])] = EmptyFile]
          /\ UNCHANGED <<tmp_json, device_rc, success_count, idx, pc>>
     ELSE /\ files' = [files EXCEPT ![OutputName(devices[idx])] = tmp_json]
          /\ tmp_json' = NoFile
          /\ device_rc' = Append(device_rc, 0)
          /\ success_count' = success_count + 1
          /\ idx' = idx + 1
          /\ pc' = IF idx = Len(devices) THEN "index" ELSE "process"
  /\ UNCHANGED <<smartctl, jq, lsblk, lsblkType, blk, vanished, DEVICE_PATTERN,
                 EXCLUDE_PATTERNS, JSON_FORMAT, DRY_RUN, run, devices,
                 excluded_devices, filtered_partitions, error_count, probed,
                 last_probe, index, exit_status>>
  /\ UNCHANGED <<CONFIG_FILE, OUTPUT_DIR, LOG_FILE, conf_files, argv, same_filesystem>>
  /\ UNCHANGED webVars

\* create_index: the redirection > "$index_file" opens index.json and
\* truncates it before anything is written
create_index_truncate ==
  /\ pc = "index"
  /\ index' = [kind |-> "empty", last_run |-> 0, total_devices |-> 0, json_files |-> <<>>]
  /\ pc' = "index_write"
  /\ UNCHANGED <<smartctl, jq, lsblk, lsblkType, blk, vanished, DEVICE_PATTERN,
                 EXCLUDE_PATTERNS, JSON_FORMAT, DRY_RUN, run, devices,
                 excluded_devices, filtered_partitions, idx, success_count,
                 error_count, device_rc, probed, last_probe, files, exit_status>>
  /\ UNCHANGED <<CONFIG_FILE, OUTPUT_DIR, LOG_FILE, conf_files, argv, tmp_json,
                 same_filesystem>>
  /\ UNCHANGED webVars

\* create_index: jq writes the whole index; in basic format cat writes the
\* head, every echo >> appends one entry and the last cat >> closes the
\* document; after the last write the run ends with its exit status
create_index_write ==
  /\ pc = "index_write"
  /\ LET whole == create_index(devices, JSON_FORMAT, jq, run)
         basic == JSON_FORMAT = "basic" \/ ~jq
         n == Len(index.json_files)
     IN IF basic /\ index.kind = "empty"
        THEN /\ index' = [kind |-> "partial", last_run |-> run,
                          total_devices |-> Len(devices), json_files |-> <<>>]
             /\ UNCHANGED <<pc, exit_status>>
        ELSE IF basic /\ n < Len(devices)
        THEN /\ index' = [index EXCEPT !.json_files = Append(@, whole.json_files[n + 1])]
             /\ UNCHANGED <<pc, exit_status>>
        ELSE /\ index' = whole
             /\ exit_status' = ExitStatus(error_count)
             /\ pc' = "done"
  /\ UNCHANGED <<smartctl, jq, lsblk, lsblkType, blk, vanished, DEVICE_PATTERN,
                 EXCLUDE_PATTERNS, JSON_FORMAT, DRY_RUN, run, devices,
                 excluded_devices, filtered_partitions, idx, success_count,
                 error_count, device_rc, probed, last_probe, files>>
  /\ UNCHANGED <<CONFIG_FILE, OUTPUT_DIR, LOG_FILE, conf_files, argv, tmp_json,
                 same_filesystem>>
  /\ UNCHANGED webVars

NextWrite ==
  \/ process_device_convert
  \/ mv_rename
  \/ mv_unlink
  \/ mv_copy
  \/ create_index_truncate
  \/ create_index_write

SpecWrite == InitWrite /\ [][NextWrite]_vars

(***************************************************************************)
(* transformDeviceData                                                     *)
(***************************************************************************)
\* what a call that raised leaves in place of a return value
Thrown == [t |-> "throw"]

\* the fields of the NVMe health log whose toString is called
NvmeFields ==
  <<"critical_warning", "temperature", "available_spare", "percentage_used",
    "power_on_hours", "power_cycles", "media_errors", "num_err_log_entries",
    "unsafe_shutdowns">>

Attribute(id, name, value, worst, threshold, raw, status) ==
  [id |-> id, name |-> name, value |-> value, worst |-> worst,
   threshold |-> threshold, raw |-> raw, status |-> status]

GoodIf(b) == Str(IF b THEN "Good" ELSE "Warning")

\* the nine rows built from nvme_smart_health_information_log
NvmeAttributes(nvmeData) ==
  LET f(k) == Get(nvmeData, k)
      pick(b, yes, no) == Num(IF b THEN yes ELSE no)
      zero(k) == StrictEquals(f(k), 0)
  IN <<Attribute(Str("critical_warning"), Str("Critical Warning"),
                 pick(zero("critical_warning"), 100, 0),
                 pick(zero("critical_warning"), 100, 0),
                 Num(0), toString(f("critical_warning")),
                 GoodIf(zero("critical_warning"))),
       Attribute(Str("temperature"), Str("Temperature"),
                 pick(LessThan(f("temperature"), Num(70)), 100, 50),
                 pick(LessThan(f("temperature"), Num(70)), 100, 50),
                 Num(70), toString(f("temperature")),
                 GoodIf(LessThan(f("temperature"), Num(70)))),
       Attribute(Str("available_spare"), Str("Available Spare"),
                 f("available_spare"), f("available_spare"),
                 f("available_spare_threshold"), toString(f("available_spare")),
                 GoodIf(LessThan(f("available_spare_threshold"), f("available_spare")))),
       Attribute(Str("percentage_used"), Str("Percentage Used"),
                 Minus(Num(100), f("percentage_used")),
                 Minus(Num(100), f("percentage_used")),
                 Num(0), toString(f("percentage_used")),
                 GoodIf(LessThan(f("percentage_used"), Num(80)))),
       Attribute(Str("power_on_hours"), Str("Power-On Hours"),
                 pick(LessThan(f("power_on_hours"), Num(8760)), 100, 85),
                 pick(LessThan(f("power_on_hours"), Num(8760)), 100, 85),
                 Num(0), toString(f("power_on_hours")), Str("Good")),
       Attribute(Str("power_cycles"), Str("Power Cycles"),
                 pick(LessThan(f("power_cycles"), Num(1000)), 100, 90),
                 pick(LessThan(f("power_cycles"), Num(1000)), 100, 90),
                 Num(0), toString(f("power_cycles")), Str("Good")),
       Attribute(Str("media_errors"), Str("Media Errors"),
                 pick(zero("media_errors"), 100, 0),
                 pick(zero("media_errors"), 100, 0),
                 Num(0), toString(f("media_errors")),
                 GoodIf(zero("media_errors"))),
       Attribute(Str("num_err_log_entries"), Str("Error Log Entries"),
                 pick(zero("num_err_log_entries"), 100, 50),
                 pick(zero("num_err_log_entries"), 100, 50),
                 Num(0), toString(f("num_err_log_entries")),
                 GoodIf(zero("num_err_log_entries"))),
       Attribute(Str("unsafe_shutdowns"), Str("Unsafe Shutdowns"),
                 pick(zero("unsafe_shutdowns"), 100, 50),
                 pick(zero("unsafe_shutdowns"), 100, 50),
                 Num(0), toString(f("unsafe_shutdowns")),
                 GoodIf(zero("unsafe_shutdowns")))>>

\* the filter and the map over Object.entries(smartAttrs), then the row
\* pushed for smartHealth.smart_status.passed
TraditionalAttributes(smartAttrs, smartHealth) ==
  LET entries == SelectSeq(ObjectEntries(smartAttrs),
                           LAMBDA e : /\ Truthy(e.v)
                                      /\ e.v.t \in {"object", "null"}
                                      /\ Truthy(Get(e.v, "id")))
      MapAttribute(e) ==
        Attribute(OrElse(Get(e.v, "id"), Str(e.k)),
                  OrElse(Get(e.v, "name"), Str(e.k)),
                  OrElse(Get(e.v, "value"), Num(0)),
                  OrElse(Get(e.v, "worst"), Num(0)),
                  OrElse(Get(e.v, "threshold"), Num(0)),
                  OrElse(Get(e.v, "raw"), Str("0")),
                  GoodIf(LessThan(OrElse(Get(e.v, "threshold"), Num(0)),
                                  OrElse(Get(e.v, "value"), Num(0)))))
      rows == [i \in DOMAIN entries |-> MapAttribute(entries[i])]
      passed == Get(Get(smartHealth, "smart_status"), "passed")
  IN IF passed # Undefined
     THEN Append(rows,
                 Attribute(Str("smart_status"), Str("SMART Status"),
                           Num(IF Truthy(passed) THEN 100 ELSE 0),
                           Num(IF Truthy(passed) THEN 100 ELSE 0),
                           Num(0),
                           Str(IF Truthy(passed) THEN "PASSED" ELSE "FAILED"),
                           GoodIf(Truthy(passed))))
     ELSE rows

\* an NVMe drive shown without any self-test entry
NvmeSelftestLog_empty(lastCheck) == <<>>

NvmeSelftestLog(lastCheck) ==
  <<[timestamp |-> lastCheck, type |-> Str("NVMe Health Check"),
     status |-> Str("Completed without error"), duration |-> Str("N/A")]>>

TraditionalSelftestLog(smartSelftest, lastCheck) ==
  LET entries == SelectSeq(ObjectEntries(smartSelftest),
                           LAMBDA e : Truthy(e.v) /\ e.v.t \in {"object", "null"})
  IN [i \in DOMAIN entries |->
        [timestamp |-> OrElse(Get(entries[i].v, "timestamp"), lastCheck),
         type |-> OrElse(Get(entries[i].v, "type"), Str(entries[i].k)),
         status |-> OrElse(Get(entries[i].v, "status"), Str("Unknown")),
         duration |-> OrElse(Get(entries[i].v, "duration"), Str("Unknown"))]]

\* a verdict that looks at the root-level smart_status before overall_health
HealthOf_root_first(smartHealth, smart_data) ==
  LET status == Get(smartHealth, "smart_status")
      root == Get(smart_data, "smart_status")
  IN IF Get(status, "passed") # Undefined
     THEN GoodIf(Truthy(Get(status, "passed")))
     ELSE IF Get(root, "passed") # Undefined
          THEN GoodIf(Truthy(Get(root, "passed")))
          ELSE IF Truthy(Get(status, "overall_health"))
               THEN GoodIf(Get(status, "overall_health") = Str("PASSED"))
               ELSE Str("Unknown")

\* the health verdict, from the first signal found
HealthOf(smartHealth, smart_data) ==
  LET status == Get(smartHealth, "smart_status")
      root == Get(smart_data, "smart_status")
  IN IF Get(status, "passed") # Undefined
     THEN GoodIf(Truthy(Get(status, "passed")))
     ELSE IF Truthy(Get(status, "overall_health"))
          THEN GoodIf(Get(status, "overall_health") = Str("PASSED"))
          ELSE IF Get(root, "passed") # Undefined
               THEN GoodIf(Truthy(Get(root, "passed")))
               ELSE Str("Unknown")

\* toUpperCase: on the device types smartctl prints
DeviceTypeOf(deviceInfo, smartAttrs) ==
  LET device == Get(deviceInfo, "device")
      toUpperCase(s) == CASE s.v = "sat" -> Str("SAT")
                          [] s.v = "nvme" -> Str("NVME")
                          [] s.v = "scsi" -> Str("SCSI")
                          [] OTHER -> s
  IN IF Truthy(Get(device, "type"))
     THEN toUpperCase(Get(device, "type"))
     ELSE IF Truthy(Get(device, "protocol"))
          THEN Get(device, "protocol")
          ELSE IF Truthy(Get(smartAttrs, "nvme_smart_health_information_log"))
               THEN Str("NVMe")
               ELSE Str("SATA/SCSI")

\* `${Math.round(bytes / (1024**3))}GB` of the first capacity found
SizeOf(deviceInfo) ==
  LET SizeInGB(bytes) ==
        LET x == ToNumber(bytes)
            GiB == 1073741824
        IN IF "nan" \in DOMAIN x
           THEN [t |-> "string", gb |-> NaN]
           ELSE [t |-> "string",
                 gb |-> Num((x.v \div GiB) + (IF 2 * (x.v % GiB) >= GiB THEN 1 ELSE 0))]
  IN
  IF Truthy(Get(deviceInfo, "nvme_total_capacity"))
  THEN SizeInGB(Get(deviceInfo, "nvme_total_capacity"))
  ELSE IF Truthy(Get(Get(deviceInfo, "user_capacity"), "bytes"))
       THEN SizeInGB(Get(Get(deviceInfo, "user_capacity"), "bytes"))
       ELSE IF Truthy(Get(deviceInfo, "User_Capacity_Bytes"))
            THEN SizeInGB(Get(deviceInfo, "User_Capacity_Bytes"))
            ELSE Str("Unknown Size")

PowerOnHoursOf(smartAttrs) ==
  LET first == IF Truthy(Get(Get(smartAttrs, "Power_On_Hours"), "raw"))
               THEN Get(Get(smartAttrs, "Power_On_Hours"), "raw")
               ELSE IF Truthy(Get(Get(smartAttrs, "9"), "raw"))
                    THEN Get(Get(smartAttrs, "9"), "raw")
                    ELSE IF Truthy(Get(Get(smartAttrs, "power_on_time"), "hours"))
                         THEN Get(Get(smartAttrs, "power_on_time"), "hours")
                         ELSE Get(Get(smartAttrs, "nvme_smart_health_information_log"),
                                  "power_on_hours")
  IN IF Truthy(first) THEN OrElse(parseInt(first), Num(0)) ELSE Num(0)

\* the calls that raise a TypeError: toUpperCase on a device type that is not
\* a string, toString on a missing or null field of the NVMe log, replace on
\* a device that is not a string
Raises(deviceData) ==
  LET smart_data == Get(deviceData, "smart_data")
      deviceInfo == OrElse(Get(smart_data, "device_info"), Obj(<<>>))
      smartAttrs == OrElse(Get(smart_data, "smart_attributes"), Obj(<<>>))
      type == Get(Get(deviceInfo, "device"), "type")
      nvmeData == Get(smartAttrs, "nvme_smart_health_information_log")
      device == Get(deviceData, "device")
  IN \/ Truthy(type) /\ type.t # "string"
     \/ Truthy(nvmeData) /\ \E i \in DOMAIN NvmeFields : Get(nvmeData, NvmeFields[i]).t \in {"undefined", "null"}
     \/ Truthy(device) /\ device.t # "string"

transformDeviceData(deviceData) ==
  IF ~Truthy(deviceData) \/ ~Truthy(Get(deviceData, "smart_data"))
  THEN Null
  ELSE IF Raises(deviceData)
  THEN Thrown
  ELSE
    LET smart_data == Get(deviceData, "smart_data")
        deviceInfo == OrElse(Get(smart_data, "device_info"), Obj(<<>>))
        smartAttrs == OrElse(Get(smart_data, "smart_attributes"), Obj(<<>>))
        smartHealth == OrElse(Get(smart_data, "smart_health"), Obj(<<>>))
        smartSelftest == OrElse(Get(smart_data, "smart_selftest"), Obj(<<>>))
        nvmeData == Get(smartAttrs, "nvme_smart_health_information_log")
        lastCheck == IF Truthy(Get(deviceData, "timestamp"))
                     THEN toLocaleString(Get(deviceData, "timestamp"))
                     ELSE Str("Unknown")
        name == Chars(replace(OrElse(Get(deviceData, "device"), Chars(<<"u","n","k","n","o","w","n">>)).c, DEV))
    IN [t |-> "record",
        id |-> name,
        name |-> name,
        model |-> OrElse(Get(deviceInfo, "model_name"),
                    OrElse(Get(deviceInfo, "Device_Model"),
                      OrElse(Get(deviceInfo, "Model_Family"), Str("Unknown Model")))),
        serial |-> OrElse(Get(deviceInfo, "serial_number"),
                     OrElse(Get(deviceInfo, "Serial_Number"), Str("Unknown Serial"))),
        firmware |-> OrElse(Get(deviceInfo, "firmware_version"),
                       OrElse(Get(deviceInfo, "Firmware_Version"), Str("Unknown Firmware"))),
        deviceType |-> DeviceTypeOf(deviceInfo, smartAttrs),
        size |-> SizeOf(deviceInfo),
        health |-> HealthOf(smartHealth, smart_data),
        powerOnHours |-> PowerOnHoursOf(smartAttrs),
        lastCheck |-> lastCheck,
        smartAttributes |-> IF Truthy(nvmeData)
                            THEN NvmeAttributes(nvmeData)
                            ELSE TraditionalAttributes(smartAttrs, smartHealth),
        errorLog |-> <<>>,
        selftestLog |-> IF Truthy(nvmeData)
                        THEN NvmeSelftestLog(lastCheck)
                        ELSE TraditionalSelftestLog(smartSelftest, lastCheck)]

(***************************************************************************)
(* Raw documents                                                           *)
(***************************************************************************)
\* marks a member the document does not have
Absent == [t |-> "absent"]

\* an object of the members that are present
ObjOf(members) == Obj(SelectSeq(members, LAMBDA e : e.v # Absent))

\* what smartctl -j prints for one sub-query of the ATA disk (type "sat") or
\* of the NVMe drive (type "nvme"): its header, then the body
SmartctlOutput(type, body) ==
  Obj(<<Prop("json_format_version", Arr(<<Num(1), Num(0)>>)),
        Prop("smartctl", Obj(<<Prop("exit_status", Num(0))>>)),
        Prop("device",
             IF type = "nvme"
             THEN Obj(<<Prop("name", Chars(NVME0N1)), Prop("type", Str("nvme")),
                        Prop("protocol", Str("NVMe"))>>)
             ELSE Obj(<<Prop("name", Chars(SDA)), Prop("type", Str("sat")),
                        Prop("protocol", Str("ATA"))>>))>> \o body)

\* smartctl -i -j of the ATA disk and of the NVMe drive, and a device_info
\* whose device.type is not a string
DeviceInfo(type) ==
  CASE type = "sat" ->
         SmartctlOutput("sat",
           <<Prop("model_name", Str("WDC WD10EZEX")),
             Prop("serial_number", Str("WD-1234")),
             Prop("firmware_version", Str("01.01A01")),
             Prop("user_capacity", Obj(<<Prop("blocks", Num(3145728)),
                                         Prop("bytes", Num(1610612736))>>))>>)
    [] type = "nvme" ->
         SmartctlOutput("nvme",
           <<Prop("model_name", Str("Samsung SSD 980")),
             Prop("serial_number", Str("S64D1234")),
             Prop("firmware_version", Str("2B4QFXO7")),
             Prop("nvme_total_capacity", Num(1073741824))>>)
    [] OTHER -> Obj(<<Prop("device", Obj(<<Prop("type", Num(1))>>))>>)

\* one row of ata_smart_attributes.table
AtaRow(id, name, value, worst, thresh, raw) ==
  Obj(<<Prop("id", Num(id)), Prop("name", Str(name)), Prop("value", Num(value)),
        Prop("worst", Num(worst)), Prop("thresh", Num(thresh)),
        Prop("raw", Obj(<<Prop("value", Num(raw)), Prop("string", Str(ToString(raw)))>>))>>)

\* smart_attributes of an ATA disk: smartctl -A -j as it is printed (shape
\* "table"), or the rows as members keyed by name or by id
AtaAttributes(shape, row) ==
  LET PowerOnRow == AtaRow(9, "Power_On_Hours", 99, 99, 0, 100)
      TemperatureRow == AtaRow(194, "Temperature_Celsius", 70, 60, 0, 30)
  IN CASE shape = "table" ->
            SmartctlOutput("sat",
              <<Prop("ata_smart_attributes",
                     Obj(<<Prop("revision", Num(16)),
                           Prop("table", Arr(<<row, PowerOnRow, TemperatureRow>>))>>)),
                Prop("power_on_time", Obj(<<Prop("hours", Num(100))>>))>>)
       [] shape = "named" ->
            Obj(<<Prop("Reallocated_Sector_Ct", row), Prop("Power_On_Hours", PowerOnRow)>>)
       [] OTHER ->
            Obj(<<Prop("194", TemperatureRow), Prop("9", PowerOnRow), Prop("5", row)>>)

\* nvme_smart_health_information_log with the numbers of w
NvmeLog(w) ==
  Obj(<<Prop("critical_warning", Num(w.critical_warning)),
        Prop("temperature", Num(w.temperature)),
        Prop("available_spare", Num(w.available_spare)),
        Prop("available_spare_threshold", Num(10)),
        Prop("percentage_used", Num(w.percentage_used)),
        Prop("power_cycles", Num(10)),
        Prop("power_on_hours", Num(w.power_on_hours)),
        Prop("unsafe_shutdowns", Num(w.unsafe_shutdowns)),
        Prop("media_errors", Num(w.media_errors)),
        Prop("num_err_log_entries", Num(w.num_err_log_entries))>>)

\* the log of the healthy drive of the documented scenario
GoodLog ==
  NvmeLog([critical_warning |-> 0, temperature |-> 45, available_spare |-> 100,
           percentage_used |-> 5, power_on_hours |-> 100, media_errors |-> 0,
           num_err_log_entries |-> 0, unsafe_shutdowns |-> 0])

\* complete logs on both sides of every threshold, GoodLog with one member
\* missing or null, and logs that are no object
NvmeLogs ==
  LET keys == {GoodLog.v[i].k : i \in DOMAIN GoodLog.v}
  IN {NvmeLog(w) :
        w \in [critical_warning : {0, 1}, temperature : {69, 70},
               available_spare : {10, 11}, percentage_used : {79, 80},
               power_on_hours : {100, 8760}, media_errors : {0, 1},
               num_err_log_entries : {0, 1}, unsafe_shutdowns : {0, 1}]}
     \cup {GoodLog}
     \cup {Obj(SelectSeq(GoodLog.v, LAMBDA e : e.k # k)) : k \in keys}
     \cup {Obj([i \in DOMAIN GoodLog.v |->
                  IF GoodLog.v[i].k = k THEN Prop(k, Null) ELSE GoodLog.v[i]]) : k \in keys}
     \cup {Obj(<<>>), Bool(TRUE), Null}

\* smartctl -A -j of an NVMe drive
NvmeAttributesOutput(log) ==
  SmartctlOutput("nvme", <<Prop("nvme_smart_health_information_log", log)>>)

\* smartctl -H -j with that smart_status
HealthOutput(type, smart_status) ==
  SmartctlOutput(type, <<Prop("smart_status", smart_status)>>)

\* smartctl -l selftest -j of an ATA disk as it is printed (shape "table"),
\* or self-tests as members of smart_selftest
Selftest(shape) ==
  IF shape = "table"
  THEN SmartctlOutput("sat",
         <<Prop("ata_smart_self_test_log",
                Obj(<<Prop("standard",
                           Obj(<<Prop("revision", Num(1)),
                                 Prop("table",
                                      Arr(<<Obj(<<Prop("type",
                                                       Obj(<<Prop("value", Num(1)),
                                                             Prop("string", Str("Short offline"))>>)),
                                                  Prop("lifetime_hours", Num(100))>>)>>)),
                                 Prop("count", Num(1))>>))>>))>>)
  ELSE Obj(<<Prop("2", Obj(<<Prop("type", Str("Extended offline")),
                             Prop("status", Str("Completed without error"))>>)),
             Prop("1", Obj(<<Prop("type", Str("Short offline")),
                             Prop("status", Str("Completed without error")),
                             Prop("duration", Str("2 min"))>>))>>)

\* the document convert_to_json writes; {} is the placeholder of a failed
\* sub-query
Document(device, timestamp, info, attrs, health, root, selftest) ==
  ObjOf(<<Prop("device", device),
          Prop("timestamp", timestamp),
          Prop("smart_data",
               ObjOf(<<Prop("device_info", info),
                       Prop("smart_attributes", attrs),
                       Prop("smart_health", health),
                       Prop("smart_errors", Obj(<<>>)),
                       Prop("smart_selftest", selftest),
                       Prop("smart_status", root)>>))>>)

\* the inputs of transformDeviceData: documents that differ in their health
\* signals, documents of NVMe drives, documents of ATA disks, and what is no
\* document at all
RawDocuments ==
  LET Reallocated(v) == AtaRow(5, "Reallocated_Sector_Ct", v, v, 10, 3)
      Passed(b) == Obj(<<Prop("passed", Bool(b))>>)
      HealthStatuses ==
        {ObjOf(<<Prop("passed", p), Prop("overall_health", o)>>) :
           p \in {Absent, Bool(TRUE), Bool(FALSE), Null},
           o \in {Absent, Str("PASSED"), Str("FAILED"), Str("")}}
      MixedAttributes(log) ==
        Obj(<<Prop("Reallocated_Sector_Ct", Reallocated(90)),
              Prop("nvme_smart_health_information_log", log)>>)
      HealthDocuments ==
        {Document(Chars(SDA), Num(1), info, attrs, health, root, selftest) :
           info \in {Absent, DeviceInfo("sat")},
           attrs \in {Absent, AtaAttributes("table", Reallocated(90)),
                      NvmeAttributesOutput(GoodLog)},
           health \in {Absent, Obj(<<>>)}
                      \cup {HealthOutput("sat", s) : s \in HealthStatuses},
           root \in {Absent, Passed(TRUE), Passed(FALSE)},
           selftest \in {Absent, Selftest("table"), Selftest("keyed")}}
      NvmeDocuments ==
        {Document(Chars(NVME0N1), timestamp, info, attrs, health, Absent, selftest) :
           timestamp \in {Absent, Num(1)},
           info \in {DeviceInfo("nvme"), Obj(<<>>)},
           attrs \in {NvmeAttributesOutput(l) : l \in NvmeLogs}
                     \cup {MixedAttributes(l) : l \in {GoodLog, Null}},
           health \in {Absent, HealthOutput("nvme", Passed(TRUE))},
           selftest \in {Absent, Selftest("keyed")}}
      AtaDocuments ==
        {Document(device, timestamp, info, attrs, health, Absent, selftest) :
           device \in {Absent, Chars(SDA)},
           timestamp \in {Absent, Num(1)},
           info \in {DeviceInfo("sat"), Obj(<<>>), DeviceInfo("odd")},
           attrs \in {Obj(<<>>)} \cup
                     {AtaAttributes(shape, Reallocated(v)) :
                        shape \in {"table", "named", "numbered"}, v \in {90, 10, 5}},
           health \in {Obj(<<>>), HealthOutput("sat", Passed(FALSE))},
           selftest \in {Obj(<<>>), Selftest("table"), Selftest("keyed")}}
      NoDocuments ==
        {Undefined, Null, Str(""), Num(0), Bool(TRUE), Obj(<<>>),
         Obj(<<Prop("device", Chars(SDA))>>),
         Obj(<<Prop("device", Chars(SDA)), Prop("smart_data", Null)>>),
         Obj(<<Prop("smart_data", Obj(<<>>))>>),
         Obj(<<Prop("device", Num(5)), Prop("smart_data", Obj(<<>>))>>)}
  IN HealthDocuments \cup NvmeDocuments \cup AtaDocuments \cup NoDocuments

\* the collector is not running
NoCollector ==
  /\ smartctl = TRUE
  /\ jq = TRUE
  /\ lsblk = TRUE
  /\ lsblkType = TruthfulLsblk
  /\ blk = {SDA, NVME0N1}
  /\ vanished = 0
  /\ DEVICE_PATTERN = DefaultDevicePattern
  /\ EXCLUDE_PATTERNS = <<>>
  /\ JSON_FORMAT = "pretty"
  /\ DRY_RUN = FALSE
  /\ run = 1
  /\ pc = "done"
  /\ devices = <<>>
  /\ excluded_devices = <<>>
  /\ filtered_partitions = <<>>
  /\ idx = 1
  /\ success_count = 0
  /\ error_count = 0
  /\ device_rc = <<>>
  /\ probed = <<>>
  /\ last_probe = NoProbe
  /\ exit_status = 0
  /\ EmptyOutputDir
  /\ DefaultConfiguration
  /\ tmp_json = NoFile
  /\ same_filesystem = TRUE

\* transformDeviceData is about to be called on some raw document
InitTransform ==
  /\ NoCollector
  /\ document \in RawDocuments
  /\ result = Pending
  /\ allDevicesData = <<>>
  /\ isAllDevicesLoading = FALSE
  /\ isAllDevicesError = FALSE
  /\ allDevicesError = Null
  /\ calls = <<>>

\* the call of transformDeviceData
transform ==
  /\ result = Pending
  /\ result' = transformDeviceData(document)
  /\ UNCHANGED <<document, allDevicesData, isAllDevicesLoading,
                 isAllDevicesError, allDevicesError, calls>>
  /\ UNCHANGED collectorVars

NextTransform == transform

SpecTransform == InitTransform /\ [][NextTransform]_vars



(***************************************************************************)
(* From the collector's file names to the ids of the web UI                *)
(***************************************************************************)
\* device paths a DEVICE_PATTERN can name and is_disk_device accepts: disks
\* directly under /dev, and block devices below a subdirectory of /dev
\* (/dev/disk/by-id/wwn-5, /dev/cciss/c0d0)
DevicePaths ==
  {SDA, SDB, NVME0N1,
   DEV \o <<"d","i","s","k","/","b","y","-","i","d","/","w","w","n","-","5">>,
   DEV \o <<"c","c","i","s","s","/","c","0","d","0">>}

\* a run over one device has ended: index.json lists its file, and the
\* document of the file is about to be given to transformDeviceData
InitDetail ==
  /\ smartctl = TRUE
  /\ jq \in BOOLEAN
  /\ lsblk = TRUE
  /\ lsblkType = TruthfulLsblk
  /\ blk = {SDA, SDB, NVME0N1}
  /\ vanished = 0
  /\ DEVICE_PATTERN = DefaultDevicePattern
  /\ EXCLUDE_PATTERNS = <<>>
  /\ JSON_FORMAT \in (IF jq THEN Formats ELSE {"basic"})
  /\ DRY_RUN = FALSE
  /\ run = 1
  /\ pc = "done"
  /\ devices \in {<<d>> : d \in DevicePaths}
  /\ excluded_devices = <<>>
  /\ filtered_partitions = <<>>
  /\ idx = 2
  /\ success_count = 1
  /\ error_count = 0
  /\ device_rc = <<0>>
  /\ probed = devices
  /\ last_probe = [device |-> devices[1], outcome |-> AllOk, warned |-> {}, rc |-> 0]
  /\ exit_status = 0
  /\ files = [n \in FileNames |->
                IF n = OutputName(devices[1])
                THEN convert_to_json(get_device_info(AllOk, jq), devices[1],
                                     JSON_FORMAT, jq, run)
                ELSE NoFile]
  /\ index = create_index(devices, JSON_FORMAT, jq, run)
  /\ DefaultConfiguration
  /\ tmp_json = NoFile
  /\ same_filesystem = TRUE
  /\ document \in
       {Document(Chars(devices[1]), Num(run), info, attrs, health, Absent, selftest) :
          info \in {DeviceInfo("sat"), DeviceInfo("nvme"), Obj(<<>>)},
          attrs \in {AtaAttributes("table", AtaRow(5, "Reallocated_Sector_Ct", 90, 90, 10, 3)),
                     NvmeAttributesOutput(GoodLog), Obj(<<>>)},
          health \in {HealthOutput("sat", Obj(<<Prop("passed", Bool(TRUE))>>)), Obj(<<>>)},
          selftest \in {Selftest("table"), Obj(<<>>)}}
  /\ result = Pending
  /\ allDevicesData = <<>>
  /\ isAllDevicesLoading = FALSE
  /\ isAllDevicesError = FALSE
  /\ allDevicesError = Null
  /\ calls = <<>>

SpecDetail == InitDetail /\ [][NextTransform]_vars

(***************************************************************************)
(* Properties of the device classifier (checked under SpecScan)            *)
(***************************************************************************)
\* the list has been built
ListBuilt == pc \in {"process", "index"}

\* the block devices the enumeration hands to is_disk_device
Examined == blk \cap Range(Candidates(DEVICE_PATTERN, FileSystem(blk)))

\* is_disk_device returned non-zero for the device
Rejected(d) == d \in Range(filtered_partitions)

\* is_disk_device returned 0 for the device
Accepted(d) == d \in Range(devices) \cup Range(excluded_devices)

PartitionShaped(name) == MatchesLettersDigits(name) /\ ~MatchesNvmeNamespace(name)

\* C1: an existing block device whose base name matches ^[a-z]+[0-9]+$ and
\* is not an NVMe namespace name is rejected by is_disk_device whether or
\* not lsblk is installed and whatever type lsblk prints; and scanning
\* /dev/sda /dev/sda1 /dev/nvme0n1 (two disks and a partition) without
\* exclude patterns gives the processing list /dev/sda, /dev/nvme0n1.
C1_PartitionNamesExcluded ==
  ListBuilt =>
    /\ \A d \in Examined :
         PartitionShaped(basename(d)) => Rejected(d) /\ ~Accepted(d)
    /\ ( /\ DEVICE_PATTERN = ScenarioDevicePattern
         /\ EXCLUDE_PATTERNS = <<>>
         /\ lsblk => lsblkType[SDA] \in {"disk", ""} /\ lsblkType[NVME0N1] \in {"disk", ""} )
       => devices = <<SDA, NVME0N1>>

\* C1 witness: lsblk calls /dev/sda1 a disk, the scan still rejects it and
\* the scenario's list comes out
C1_Witness ==
  /\ ListBuilt
  /\ lsblk
  /\ lsblkType[SDA1] = "disk"
  /\ DEVICE_PATTERN = ScenarioDevicePattern
  /\ EXCLUDE_PATTERNS = <<>>
  /\ Rejected(SDA1)
  /\ devices = <<SDA, NVME0N1>>

C3_LsblkPreferred ==
  (ListBuilt /\ lsblk) =>
    \A d \in Examined :
       /\ lsblkType[d] = "part" => Rejected(d)
       /\ lsblkType[d] = "disk" => Accepted(d)
       /\ lsblkType[d] \notin {"part", "disk"} =>
            (Rejected(d) <=> PartitionShaped(basename(d)))

\* C3 amended: with lsblk installed the name check decides first and
\* rejects a partition-shaped name whatever lsblk prints; for every other
\* name "part" rejects, "disk" and the empty type accept, and any other
\* type rejects.
C3_NameCheckThenLsblk ==
  (ListBuilt /\ lsblk) =>
    \A d \in Examined :
       /\ PartitionShaped(basename(d)) => Rejected(d)
       /\ ~PartitionShaped(basename(d)) =>
            /\ lsblkType[d] = "part" => Rejected(d)
            /\ lsblkType[d] \in {"disk", ""} => Accepted(d)
            /\ lsblkType[d] \notin {"part", "disk", ""} => Rejected(d)

\* C3 witness: lsblk prints "disk" for the partition-shaped /dev/sda1, which
\* is rejected, and "part" for /dev/sda, which is rejected too
C3_Witness ==
  /\ ListBuilt
  /\ lsblk
  /\ lsblkType[SDA1] = "disk"
  /\ lsblkType[SDA] = "part"
  /\ {SDA, SDA1} \subseteq Examined
  /\ Rejected(SDA1)
  /\ Rejected(SDA)

(***************************************************************************)
(* Properties of a collector run (checked under Spec unless noted)         *)
(***************************************************************************)
\* the names index.json lists, none while there is no index.json
IndexedNames == IF index.kind = "index" THEN Range(index.json_files) ELSE {}

MatchesExcludePattern(d) ==
  \E i \in DOMAIN EXCLUDE_PATTERNS : GlobMatch(EXCLUDE_PATTERNS[i], d, TRUE)

\* C5: a device path that glob-matches one of the exclude patterns is never
\* in the processing list, never probed and never listed in index.json,
\* whatever its classification; with the exclude pattern /dev/sda and the
\* devices /dev/sda and /dev/sdb a completed run has probed only /dev/sdb
\* and its index lists exactly one file.
C5_ExcludedNeverProbed ==
  /\ \A d \in Universe :
        MatchesExcludePattern(d) =>
           /\ d \notin Range(devices)
           /\ d \notin Range(probed)
           /\ OutputName(d) \notin IndexedNames
  /\ ( /\ pc = "done"
       /\ smartctl
       /\ ~DRY_RUN
       /\ EXCLUDE_PATTERNS = <<SDA>>
       /\ blk = {SDA, SDB} )
     => /\ probed = <<SDB>>
        /\ index.kind = "index"
        /\ index.last_run = run
        /\ index.json_files = <<OutputName(SDB)>>

\* C5 witness: the run with exclude pattern /dev/sda over /dev/sda and
\* /dev/sdb has finished
C5_Witness ==
  /\ pc = "done"
  /\ EXCLUDE_PATTERNS = <<SDA>>
  /\ blk = {SDA, SDB}
  /\ probed = <<SDB>>
  /\ index.json_files = <<OutputName(SDB)>>
  /\ files[OutputName(SDB)].kind = "doc"
  /\ files[OutputName(SDA)].kind = "absent"

\* the sub-query failed or printed invalid JSON
FailedOrInvalid(o) == o \in {"fail", "garbage", "braced"}

\* C6 (checked under SpecProbe): after the probe of an accessible device
\* in which every sub-query either succeeded, failed or printed invalid
\* JSON, the probe has succeeded and the device's document holds all five
\* keys, {} for exactly the failed or invalid sub-queries and the tool's
\* output for the others.
C6_FailedSubQueriesBecomePlaceholders ==
  ( /\ last_probe.device # <<>>
    /\ \A q \in SubQueries : last_probe.outcome[q] \in {"ok"} \cup {"fail", "garbage", "braced"} )
  => /\ last_probe.rc = 0
     /\ success_count = 1
     /\ LET doc == files[OutputName(last_probe.device)]
        IN /\ doc.kind = "doc"
           /\ doc.device = last_probe.device
           /\ doc.timestamp = run
           /\ \A q \in SubQueries :
                 doc.smart_data[q] =
                    IF FailedOrInvalid(last_probe.outcome[q]) THEN "{}" ELSE "tool"

\* a step of the processing loop
LoopStep == pc = "process" /\ idx' = idx + 1

\* C7: when the device the loop has reached is no longer a block device,
\* the iteration writes no file, adds exactly one failure and no success,
\* reports status 1 for it and moves on to the next device without ending
\* the run; every device the loop reaches while it is accessible is probed,
\* in list order.
C7_InaccessibleDeviceIsOneFailure ==
  [][ LoopStep =>
        /\ devices[idx] \notin blk =>
              /\ files' = files
              /\ index' = index
              /\ error_count' = error_count + 1
              /\ success_count' = success_count
              /\ device_rc' = Append(device_rc, 1)
              /\ probed' = probed
        /\ devices[idx] \in blk => probed' = Append(probed, devices[idx])
        /\ devices' = devices
        /\ pc' = IF idx < Len(devices) THEN "process" ELSE "index"
    ]_vars

\* C7 witness: /dev/sda had disappeared when its turn came, it has no
\* output file, and /dev/sdb after it was probed
C7_Witness ==
  /\ pc = "done"
  /\ devices = <<SDA, SDB>>
  /\ device_rc = <<1, 0>>
  /\ probed = <<SDB>>
  /\ error_count = 1
  /\ files[OutputName(SDA)].kind = "absent"
  /\ files[OutputName(SDB)].kind = "doc"
  /\ exit_status = 1

\* C8 (checked under SpecExit): with smartctl installed the exit status of
\* a run equals the number of per-device failures, 0 when there is none,
\* for every failure count.
C8_ExitStatusIsFailureCount ==
  (pc = "done" /\ smartctl /\ ~DRY_RUN) => exit_status = error_count

\* C9: in a run without smartctl the script ends with status 1 before any
\* device is enumerated or probed, and no per-device document and no
\* index.json is written or changed; without jq the run goes on, with the
\* basic format.
C9_MissingSmartctlAborts ==
  [][ /\ (~smartctl /\ run' = run) =>
           /\ pc' \in {"start", "done"}
           /\ pc' = "done" => exit_status' = 1
           /\ files' = files
           /\ index' = index
           /\ devices' = <<>>
           /\ probed' = <<>>
      /\ (smartctl /\ ~jq /\ pc = "start" /\ pc' # "start") =>
           /\ pc' = "scan"
           /\ JSON_FORMAT' = "basic"
    ]_vars

\* C9 witness: the second run found no smartctl and left the index of the
\* first run in place
C9_Witness ==
  /\ pc = "done"
  /\ run = 2
  /\ ~smartctl
  /\ exit_status = 1
  /\ index.kind = "index"
  /\ index.last_run = 1
  /\ devices = <<>>

\* C10: every index.json has total_devices equal to the length of
\* json_files, and the index the finished run wrote lists, in order,
\* <basename>_smart.json for each device of the processing list.
C10_IndexCountsItsFiles ==
  index.kind = "index" =>
     /\ index.total_devices = Len(index.json_files)
     /\ (pc = "done" /\ index.last_run = run) =>
           index.json_files = [i \in DOMAIN devices |-> OutputName(devices[i])]

\* C11: in a dry run no step probes a device or creates or modifies a
\* per-device document, and the step that ends scan_devices regenerates
\* index.json with this run's time stamp and, for a processing list that is
\* not empty, the <basename>_smart.json names a real run lists for it, and
\* leaves exit status 0.
C11_DryRunOnlyRegeneratesIndex ==
  [][DRY_RUN =>
       /\ files' = files
       /\ probed' = <<>>
       /\ (pc = "index" /\ pc' = "done") =>
             /\ index'.kind = "index"
             /\ index'.last_run = run
             /\ index'.total_devices = Len(devices)
             /\ devices # <<>> =>
                   index'.json_files = [i \in DOMAIN devices |-> OutputName(devices[i])]
             /\ exit_status' = 0]_vars

\* a dry run that followed a real run: the documents of the real run are
\* still there and the index is the dry run's
C11_Witness ==
  /\ pc = "done"
  /\ DRY_RUN
  /\ run = 2
  /\ smartctl
  /\ Len(devices) = 2
  /\ probed = <<>>
  /\ \E n \in FileNames : files[n] # NoFile
  /\ index.kind = "index"
  /\ index.last_run = 2
  /\ index.json_files = [i \in DOMAIN devices |-> OutputName(devices[i])]
  /\ exit_status = 0

\* the configuration file the run uses existed before the run and assigns s
GivenInConfigFile(s) ==
  /\ conf_files[CONFIG_FILE].exists
  /\ s \in conf_files[CONFIG_FILE].assigns
  /\ conf_files[CONFIG_FILE].values[s] = FileValues[CONFIG_FILE][s]

\* C12: while devices are scanned and outputs are written, every setting
\* given both in the existing configuration file and by a flag has the
\* flag's value.
C12_FlagsOverrideConfigFile ==
  pc \in {"scan", "process", "index"} =>
     \A s \in argv.flags : GivenInConfigFile(s) => CurrentSettings[s] = FlagValues[s]

(***************************************************************************)
(* useSmartMonitor: loadAllData                                            *)
(***************************************************************************)
\* a rejected axios request
NetworkError == [t |-> "error", message |-> "Request failed"]

\* what a raise inside the try block hands to catch
TypeError == [t |-> "error", message |-> "TypeError"]

\* what GET index.json can give: a failure, or an index.json the collector
\* wrote for no, one or two devices
IndexResponses ==
  {NetworkError}
  \cup {create_index(devs, "basic", TRUE, 1) : devs \in {<<>>, <<SDA>>, <<SDA, NVME0N1>>}}

\* what GET <deviceName>_smart.json can give: a failure, the document, an
\* empty object, or for the NVMe drive a document whose log lacks a field
DeviceResponses(deviceName) ==
  LET Passed == Obj(<<Prop("passed", Bool(TRUE))>>)
      SdaDocument ==
        Document(Chars(SDA), Num(1), DeviceInfo("sat"),
                 AtaAttributes("table", AtaRow(5, "Reallocated_Sector_Ct", 90, 90, 10, 3)),
                 HealthOutput("sat", Passed), Absent, Selftest("table"))
      NvmeDocument(log) ==
        Document(Chars(NVME0N1), Num(1), DeviceInfo("nvme"), NvmeAttributesOutput(log),
                 HealthOutput("nvme", Passed), Absent, Obj(<<>>))
  IN IF deviceName = basename(SDA)
     THEN {NetworkError, SdaDocument, Obj(<<>>)}
     ELSE IF deviceName = basename(NVME0N1)
          THEN {NetworkError, NvmeDocument(GoodLog), NvmeDocument(Obj(<<>>))}
          ELSE {NetworkError}

\* fetchMultipleDevices: Promise.allSettled, then the fulfilled values only
fetchMultipleDevices(responses) == SelectSeq(responses, LAMBDA r : r # NetworkError)

\* a loadAllData call that has just started; outcome is what the call will
\* have assigned when it ends: the list of devices, or the error it caught
NewCall ==
  [pc |-> "fetchIndex", deviceNames |-> <<>>, failed |-> FALSE, outcome |-> Pending]

\* useSmartMonitor() has returned: its first loadAllData awaits the index
InitLoad ==
  /\ NoCollector
  /\ document = Undefined
  /\ result = Pending
  /\ allDevicesData = <<>>
  /\ isAllDevicesLoading = TRUE
  /\ isAllDevicesError = FALSE
  /\ allDevicesError = Null
  /\ calls = <<NewCall>>

\* refreshAll: loadAllData up to its first await
refreshAll ==
  /\ Len(calls) < MaxLoads
  /\ isAllDevicesLoading' = TRUE
  /\ isAllDevicesError' = FALSE
  /\ allDevicesError' = Null
  /\ calls' = Append(calls, NewCall)
  /\ UNCHANGED <<document, result, allDevicesData>>
  /\ UNCHANGED collectorVars

\* loadAllData from the answer to fetchIndex to its next await or its end
loadAllData_index(c) ==
  /\ calls[c].pc = "fetchIndex"
  /\ \E indexData \in IndexResponses :
       IF indexData = NetworkError
       THEN /\ isAllDevicesError' = TRUE
            /\ allDevicesError' = indexData
            /\ isAllDevicesLoading' = FALSE
            /\ calls' = [calls EXCEPT ![c].pc = "done", ![c].failed = TRUE,
                                      ![c].outcome = indexData]
            /\ UNCHANGED allDevicesData
       ELSE IF Len(indexData.json_files) = 0
            THEN /\ allDevicesData' = <<>>
                 /\ isAllDevicesLoading' = FALSE
                 /\ calls' = [calls EXCEPT ![c].pc = "done",
                                           ![c].outcome = [t |-> "data", v |-> <<>>]]
                 /\ UNCHANGED <<isAllDevicesError, allDevicesError>>
            ELSE /\ calls' = [calls EXCEPT
                               ![c].pc = "fetchDevices",
                               ![c].deviceNames =
                                  [i \in DOMAIN indexData.json_files |->
                                     replace(indexData.json_files[i], JsonSuffix)]]
                 /\ UNCHANGED <<allDevicesData, isAllDevicesLoading,
                                isAllDevicesError, allDevicesError>>
  /\ UNCHANGED <<document, result>>
  /\ UNCHANGED collectorVars

\* loadAllData from the answer of fetchMultipleDevices to its end
loadAllData_devices(c) ==
  /\ calls[c].pc = "fetchDevices"
  /\ \E responses \in [DOMAIN calls[c].deviceNames ->
                          UNION {DeviceResponses(calls[c].deviceNames[i]) :
                                   i \in DOMAIN calls[c].deviceNames}] :
       /\ \A i \in DOMAIN responses : responses[i] \in DeviceResponses(calls[c].deviceNames[i])
       /\ LET devicesData == fetchMultipleDevices(responses)
              transformed == [i \in DOMAIN devicesData |-> transformDeviceData(devicesData[i])]
          IN /\ IF \E i \in DOMAIN transformed : transformed[i] = Thrown
                THEN /\ isAllDevicesError' = TRUE
                     /\ allDevicesError' = TypeError
                     /\ UNCHANGED allDevicesData
                ELSE /\ allDevicesData' = SelectSeq(transformed, Truthy)
                     /\ UNCHANGED <<isAllDevicesError, allDevicesError>>
             /\ calls' = [calls EXCEPT
                            ![c].pc = "done",
                            ![c].failed = \E i \in DOMAIN responses : responses[i] = NetworkError,
                            ![c].outcome =
                               IF \E i \in DOMAIN transformed : transformed[i] = Thrown
                               THEN TypeError
                               ELSE [t |-> "data", v |-> SelectSeq(transformed, Truthy)]]
  /\ isAllDevicesLoading' = FALSE
  /\ UNCHANGED <<document, result>>
  /\ UNCHANGED collectorVars

NextLoad ==
  \/ refreshAll
  \/ \E c \in DOMAIN calls : loadAllData_index(c)
  \/ \E c \in DOMAIN calls : loadAllData_devices(c)

SpecLoad == InitLoad /\ [][NextLoad]_vars

(***************************************************************************)
(* Claims about transformDeviceData                                        *)
(***************************************************************************)
Returned == result # Pending

IsRecord == result.t = "record"

smart_attributes == Get(Get(document, "smart_data"), "smart_attributes")

nvme_log == Get(smart_attributes, "nvme_smart_health_information_log")

\* C13: transformDeviceData never raises, and a document whose
\* smart_attributes holds an NVMe health log, complete or not, gets a record.
C13_NeverThrows ==
  /\ result # Thrown
  /\ (Returned /\ Truthy(nvme_log)) => IsRecord

\* C14: a document that is null or undefined or has no smart_data gets a
\* record whose model, serial, firmware, size and health are the "Unknown"
\* placeholders and whose smartAttributes and selftestLog are empty.
C14_MissingDocumentGetsPlaceholders ==
  (Returned /\ (document \in {Undefined, Null}
                \/ (document.t = "object" /\ Get(document, "smart_data") = Undefined))) =>
     /\ IsRecord
     /\ result.model = Str("Unknown Model")
     /\ result.serial = Str("Unknown Serial")
     /\ result.firmware = Str("Unknown Firmware")
     /\ result.size = Str("Unknown Size")
     /\ result.health = Str("Unknown")
     /\ result.smartAttributes = <<>>
     /\ result.selftestLog = <<>>

\* the ids of the rows of smartAttributes, in order
AttributeIds == [i \in DOMAIN result.smartAttributes |-> result.smartAttributes[i].id]

\* C15: whenever smart_attributes holds an NVMe health log, smartAttributes
\* has exactly the nine synthetic rows, in the documented order, whatever
\* else the document holds.
C15_NvmeLogGivesNineRows ==
  (Returned /\ Truthy(nvme_log)) =>
     /\ IsRecord
     /\ AttributeIds = [i \in DOMAIN NvmeFields |-> Str(NvmeFields[i])]

\* the log has all ten members and all are numbers
CompleteLog ==
  /\ nvme_log.t = "object"
  /\ \A k \in {NvmeFields[i] : i \in DOMAIN NvmeFields} \cup {"available_spare_threshold"} :
        Get(nvme_log, k).t = "number"

\* the raw number of a member of the log
Raw(k) == Get(nvme_log, k).v

\* the status of the row with that id
StatusOf(id) ==
  LET i == CHOOSE i \in DOMAIN result.smartAttributes :
                    result.smartAttributes[i].id = Str(id)
  IN result.smartAttributes[i].status.v

GoodIff(id, b) == StatusOf(id) = (IF b THEN "Good" ELSE "Warning")

\* C16: for a complete numeric NVMe log the counters critical_warning,
\* media_errors, num_err_log_entries and unsafe_shutdowns are Good iff 0,
\* temperature is Good iff below 70, available_spare iff above its
\* threshold, percentage_used iff below 80, power_on_hours and power_cycles
\* always, and whatever is not Good is Warning.
C16_NvmeStatusRules ==
  (Returned /\ IsRecord /\ CompleteLog) =>
     /\ \A k \in {"critical_warning", "media_errors", "num_err_log_entries",
                  "unsafe_shutdowns"} : GoodIff(k, Raw(k) = 0)
     /\ GoodIff("temperature", Raw("temperature") < 70)
     /\ GoodIff("available_spare", Raw("available_spare") > Raw("available_spare_threshold"))
     /\ GoodIff("percentage_used", Raw("percentage_used") < 80)
     /\ GoodIff("power_on_hours", TRUE)
     /\ GoodIff("power_cycles", TRUE)

\* a hot drive at its spare threshold: two Warning rows among Good ones
C16_Witness ==
  /\ Returned
  /\ IsRecord
  /\ CompleteLog
  /\ Raw("temperature") = 70
  /\ Raw("available_spare") = Raw("available_spare_threshold")
  /\ Raw("percentage_used") = 79
  /\ Raw("power_on_hours") = 8760
  /\ StatusOf("temperature") = "Warning"
  /\ StatusOf("available_spare") = "Warning"
  /\ StatusOf("percentage_used") = "Good"
  /\ StatusOf("power_on_hours") = "Good"

\* the ATA attribute rows of the document: those of
\* ata_smart_attributes.table and those that are members of smart_attributes
AtaRowsOf(attrs) ==
  LET table == Get(Get(attrs, "ata_smart_attributes"), "table")
      In(o) == IF o.t = "object"
               THEN {o.v[i].v : i \in DOMAIN o.v}
               ELSE {}
  IN {r \in In(table) \cup In(attrs) : r.t = "object" /\ Get(r, "thresh") # Undefined}

\* C17: every ATA attribute row of the document has an attribute with its
\* id, name, value and worst, its thresh as threshold, the string form of
\* raw.value as raw, and status Good iff value > thresh, Warning otherwise.
C17_AtaRowsMappedDirectly ==
  (Returned /\ IsRecord /\ ~Truthy(nvme_log)) =>
     \A r \in AtaRowsOf(smart_attributes) :
        \E i \in DOMAIN result.smartAttributes :
           result.smartAttributes[i] =
             Attribute(Get(r, "id"), Get(r, "name"), Get(r, "value"), Get(r, "worst"),
                       Get(r, "thresh"), toString(Get(Get(r, "raw"), "value")),
                       GoodIf(Get(r, "value").v > Get(r, "thresh").v))

\* the health signals of the document
passed == Get(Get(Get(Get(document, "smart_data"), "smart_health"), "smart_status"), "passed")

overall_health ==
  Get(Get(Get(Get(document, "smart_data"), "smart_health"), "smart_status"), "overall_health")

root_passed == Get(Get(Get(document, "smart_data"), "smart_status"), "passed")

\* C18: health is Good or Warning as smart_status.passed says whenever that
\* boolean is present, whatever overall_health says; without it Good iff
\* overall_health is "PASSED" and Warning for any other overall_health;
\* and Unknown exactly when the document holds no health signal at all.
C18_HealthVerdict ==
  (Returned /\ IsRecord) =>
     /\ passed.t = "boolean" => result.health = GoodIf(passed.v)
     /\ (passed.t # "boolean" /\ overall_health # Undefined) =>
           result.health = GoodIf(overall_health = Str("PASSED"))
     /\ result.health = Str("Unknown") <=>
           /\ passed.t # "boolean"
           /\ overall_health = Undefined
           /\ root_passed.t # "boolean"

\* C18, amended: the first signal that is present decides.  The member
\* smart_health.smart_status.passed is present unless it is undefined and
\* gives Good when truthy, Warning otherwise (so for false and for null),
\* whatever overall_health says; next a non-empty overall_health gives Good
\* iff it is "PASSED" and Warning otherwise; next the root-level
\* smart_status.passed decides as the first does; health is Unknown exactly
\* when none of the three is present.
C18_HealthFromFirstSignal ==
  (Returned /\ IsRecord) =>
     /\ passed # Undefined => result.health = GoodIf(Truthy(passed))
     /\ (passed = Undefined /\ Truthy(overall_health)) =>
           result.health = GoodIf(overall_health = Str("PASSED"))
     /\ (passed = Undefined /\ ~Truthy(overall_health) /\ root_passed # Undefined) =>
           result.health = GoodIf(Truthy(root_passed))
     /\ result.health = Str("Unknown") <=>
           /\ passed = Undefined
           /\ ~Truthy(overall_health)
           /\ root_passed = Undefined

\* overall_health FAILED wins over a root-level pass
C18_Witness ==
  /\ Returned
  /\ IsRecord
  /\ passed = Undefined
  /\ overall_health = Str("FAILED")
  /\ root_passed = Bool(TRUE)
  /\ result.health = Str("Warning")

IsNvmeSet == AttributeIds = [i \in DOMAIN NvmeFields |-> Str(NvmeFields[i])]

IsNvmeHealthCheck ==
  /\ Len(result.selftestLog) = 1
  /\ result.selftestLog[1].type = Str("NVMe Health Check")

\* C19: in every record smartAttributes is the nine-row NVMe set if and
\* only if selftestLog is the single "NVMe Health Check" entry; otherwise
\* neither holds a synthetic NVMe row or entry.
C19_OneSchemaPerRecord ==
  (Returned /\ IsRecord) =>
     /\ IsNvmeSet <=> IsNvmeHealthCheck
     /\ ~IsNvmeSet =>
           /\ \A i \in DOMAIN result.smartAttributes :
                 result.smartAttributes[i].id \notin {Str(NvmeFields[k]) : k \in DOMAIN NvmeFields}
           /\ \A i \in DOMAIN result.selftestLog :
                 result.selftestLog[i].type # Str("NVMe Health Check")

\* an NVMe record whose document also holds a traditional row, a
\* smart_status and keyed self-tests
C19_Witness ==
  /\ Returned
  /\ IsRecord
  /\ IsNvmeSet
  /\ IsNvmeHealthCheck
  /\ Get(smart_attributes, "Reallocated_Sector_Ct") # Undefined
  /\ passed = Bool(TRUE)
  /\ Get(Get(document, "smart_data"), "smart_selftest") = Selftest("keyed")

(***************************************************************************)
(* Claims about loadAllData                                                *)
(***************************************************************************)
\* call c ends in this step
Finishes(c) == calls[c].pc # "done" /\ calls'[c].pc = "done"

\* C20: whenever a loadAllData call ends of which a fetch failed, the one
\* of index.json or that of a listed per-device file, it leaves
\* isAllDevicesLoading false, isAllDevicesError true and the error recorded.
C20_FetchFailureIsShownAsError ==
  [][\A c \in DOMAIN calls :
       (Finishes(c) /\ calls'[c].failed) =>
          /\ isAllDevicesLoading' = FALSE
          /\ isAllDevicesError' = TRUE
          /\ allDevicesError' # Null]_vars

(***************************************************************************)
(* Properties of the output directory as a reader finds it (SpecWrite)     *)
(***************************************************************************)
\* C21: whenever a <device>_smart.json file of the output directory changes,
\* what a reader finds next is the complete document of this run; the file
\* is never missing, empty or partly written in between.
C21_DocumentReplacedAtomically ==
  [][\A n \in FileNames :
        files'[n] # files[n] => files'[n].kind = "doc" /\ files'[n].timestamp = run]_vars

\* C22: whenever index.json changes, what a reader finds next is the
\* complete index of this run, in every format; never an empty, truncated
\* or partly appended one.
C22_IndexReplacedAtomically ==
  [][index' # index => index'.kind = "index" /\ index'.last_run = run]_vars

(***************************************************************************)
(* Claims about the self-test log and the order of the rows (SpecTransform) *)
(***************************************************************************)
\* C23: for a document with an NVMe health log, selftestLog is exactly one
\* "NVMe Health Check" entry, and that entry says "Completed without error"
\* only when the health verdict of the record is Good.
C23_NvmeSelftestFollowsHealth ==
  (Returned /\ IsRecord /\ Truthy(nvme_log)) =>
     /\ Len(result.selftestLog) = 1
     /\ result.selftestLog[1].type = Str("NVMe Health Check")
     /\ result.selftestLog[1].status = Str("Completed without error") =>
           result.health = Str("Good")

\* the rows of ata_smart_self_test_log.standard.table of the document
selftest_table ==
  LET smart_selftest == Get(Get(document, "smart_data"), "smart_selftest")
      table == Get(Get(Get(smart_selftest, "ata_smart_self_test_log"), "standard"), "table")
  IN IF table.t = "object" THEN table.v ELSE <<>>

\* C24: for a document without an NVMe health log, selftestLog has one
\* entry per row of the self-test table and no other (none when there is no
\* table), and the entry of a row without a timestamp does not carry the
\* capture time of the document.
C24_OneEntryPerSelftestRow ==
  (Returned /\ IsRecord /\ ~Truthy(nvme_log)) =>
     /\ Len(result.selftestLog) = Len(selftest_table)
     /\ \A i \in DOMAIN result.selftestLog :
           (i \in DOMAIN selftest_table
            /\ Get(selftest_table[i].v, "timestamp") = Undefined) =>
              result.selftestLog[i].timestamp # result.lastCheck

\* the members of o that are objects, in the order of the JSON text
ObjectMembers(o) ==
  IF o.t = "object" THEN SelectSeq(o.v, LAMBDA e : e.v.t = "object") ELSE <<>>

\* C25: the attributes follow the members of smart_attributes that carry an
\* id, and the self-test entries the members of smart_selftest, in the
\* order of the source document, whatever their keys are.
C25_InsertionOrderKept ==
  (Returned /\ IsRecord /\ ~Truthy(nvme_log)) =>
     LET rows == SelectSeq(ObjectMembers(smart_attributes),
                           LAMBDA e : Truthy(Get(e.v, "id")))
         tests == ObjectMembers(Get(Get(document, "smart_data"), "smart_selftest"))
     IN /\ \A i \in DOMAIN rows : result.smartAttributes[i].id = Get(rows[i].v, "id")
        /\ \A i \in DOMAIN tests :
              result.selftestLog[i].type = OrElse(Get(tests[i].v, "type"), Str(tests[i].k))

(***************************************************************************)
(* Warnings of the probe (SpecProbe)                                       *)
(***************************************************************************)
\* C26: after a probe, every sub-query that stands as the {} placeholder in
\* the document this run wrote for the device has had a warning logged for
\* it during that probe.
C26_PlaceholderHasWarning ==
  last_probe.device # <<>> =>
     LET doc == files[OutputName(last_probe.device)]
     IN (doc.kind = "doc" /\ doc.timestamp = run) =>
           \A q \in SubQueries : doc.smart_data[q] = "{}" => q \in last_probe.warned

(***************************************************************************)
(* Overlapping loadAllData calls (SpecLoad)                                *)
(***************************************************************************)
\* C27: isAllDevicesLoading is true exactly while some loadAllData call of
\* the instance has not ended.
C27_LoadingWhileAnyCallInFlight ==
  isAllDevicesLoading <=> \E c \in DOMAIN calls : calls[c].pc # "done"

\* C28: once every loadAllData call has ended, the three refs hold what
\* the call started last has assigned: its list and no error, or its error.
C28_LastStartedCallWins ==
  (\A c \in DOMAIN calls : calls[c].pc = "done") =>
     LET last == calls[Len(calls)].outcome
     IN IF last.t = "data"
        THEN /\ allDevicesData = last.v
             /\ isAllDevicesError = FALSE
             /\ allDevicesError = Null
        ELSE /\ isAllDevicesError = TRUE
             /\ allDevicesError = last

(***************************************************************************)
(* The index of a finished run (Spec)                                      *)
(***************************************************************************)
\* C29: when a run that is no dry run has ended with its index written,
\* every entry of json_files names a file of the output directory that is
\* a document written during that run.
C29_IndexListsDocumentsOfThisRun ==
  (pc = "done" /\ ~DRY_RUN /\ index.kind = "index" /\ index.last_run = run) =>
     \A i \in DOMAIN index.json_files :
        /\ index.json_files[i] \in FileNames
        /\ files[index.json_files[i]].kind = "doc"
        /\ files[index.json_files[i]].timestamp = run

(***************************************************************************)
(* Device identity from the index to the detail page (SpecDetail)          *)
(***************************************************************************)
\* C30: for every device path the collector processes, the id of the
\* record made from its document is the name its index entry gives when
\* "_smart.json" is cut off, so that <id>_smart.json is the listed file.
C30_IdMatchesIndexEntry ==
  (Returned /\ IsRecord) =>
     /\ result.id = Chars(replace(index.json_files[1], JsonSuffix))
     /\ result.id.c \o JsonSuffix = index.json_files[1]

====
